---- MODULE Spec2Model ----
(***************************************************************************)
(* A model of the gsuneido database core: the chunked store (stor.Stor),   *)
(* the state holder (db19/state.go), the transaction manager and the       *)
(* union query operator (dbms/query union).                                *)
(*                                                                         *)
(* Each subsystem has its own variables, its own Init and Next and its own *)
(* specification; the variables of the other subsystems stay at their idle *)
(* values.                                                                 *)
(***************************************************************************)
EXTENDS Integers, Sequences, FiniteSets, TLC

VARIABLES
    \* ---- stor.Stor (src/unnamed/part_003) ----
    size,        \* Stor.size (atomic.Uint64); closedSize after Close
    chunks,      \* Stor.chunks: the sequence of mapped chunks, chunks[i+1] is Go's chunks[i]
    lock,        \* Stor.lock: 0 when free, else the thread that holds it
    implHeap,    \* whether Stor.impl is a *heapStor
    closed,      \* whether Close has been called
    initial,     \* the size NewStor was given
    al,          \* per thread: the position in Alloc and its locals
    started,     \* number of Alloc calls started so far
    allocated,   \* history: the allocations returned, in return order
    fetched,     \* history: the chunk numbers asked of impl.Get, in call order
    \* ---- stateHolder and DbState (src/db19/state.go) ----
    stObj,       \* the DbState objects ever made: stObj[id] = [store, meta], meta a pointer
    metaObj,     \* the meta.Meta objects ever made: metaObj[id] = [root, mb, ovl]
    shState,     \* stateHolder.state: the pointer to the published DbState
    shMutex,     \* stateHolder.mutex: "free", else the thread that holds it
    up,          \* per updating thread: its position and locals
    rd,          \* the reader: the DbState pointer GetState returned, and what it saw
    rootStatus,  \* per index root in the store: "partial" while written, then "written"
    rootContent, \* per index root in the store: the transactions it holds
    diskStates,  \* the state roots written to the store, in order
    installed,   \* history: the states set() has published, in order
    committed,   \* history: the transactions whose commit has been installed
    mergeNext,   \* the next transaction number the merger is handed
    nPersist,    \* number of Persist calls started
    \* ---- transaction manager (spec section 4.5) ----
    tdb,         \* the committed state: the keys in the unique index of the table
    tcount,      \* the commit counter
    tlog,        \* the commit log: the write sets committed, in commit order
    tr,          \* per transaction: status, start, snapshot, read set, write set, error
    \* ---- query.Union (src/unnamed/part_002) ----
    rows1,       \* the rows of source1, in index order
    rows2,       \* the rows of source2, in index order
    it1,         \* the iterator of source1
    it2,         \* the iterator of source2
    un,          \* the Union: strategy, rewound, src1, src2, row1, row2, prevDir
    res,         \* the row the last Get returned since the rewind (Nil for nil or none)
    cur,         \* the caller's logical cursor over the union, as in the test
    atEnd,       \* the last Get returned nil and the caller has not rewound yet
    scan,        \* history: the rows returned since the rewind, while in one direction
    \* ---- state roots and Repair (src/db19/state.go, src/unnamed/part_004) ----
    fsys,        \* the directory: the bytes of dbfile, dbfile.bak and the temporary file
    bld,         \* history: the state roots written, the records written, the damage done
    badTables,   \* the meta offsets of the tables whose check fails
    rep,         \* Repair: its position, its locals and the candidates it tried
    \* ---- btree.Merge (src/database/btree/merge.go) ----
    pages,       \* the leaves of the fbtrees: per page, its entries
    fbt,         \* the fbtree given to Merge: its leaves, in key order
    mbt,         \* the mbtree given to Merge: its entries, one per key
    mg,          \* Merge: its position, the fbupdate, the entries left, the result
    \* ---- query.Summarize (src/dbms/query/summarize.go) ----
    su,          \* the Summarize: the query, the strategy, rewound, the Select in force
    srows,       \* the rows of its source, in the order of the index it reads
    sit,         \* the iterator of its source
    slog,        \* history since the last Rewind or Select: the Gets, their results,
                 \* and the directions of the reads of the source
    \* ---- Query.Transform (src/dbms/query/summarize.go, src/unnamed/part_002) ----
    qt,          \* a query tree, and the results of Transform applied to it once and twice
    \* ---- query.TempIndex (src/dbms/query/tempindex.go) ----
    ti,          \* the TempIndex: order, iter built or not, rewound, selOrg, selEnd
    tiRows,      \* the rows of its source
    tiIter,      \* the position of the sortlist iterator
    tiLog,       \* history since the last Rewind or Select: the Gets, their results,
                 \* and the last Lookup
    \* ---- TempIndex.multi and multiIter (src/dbms/query/tempindex.go) ----
    msource,     \* the rows of the source: per row, nrecs records [Off, Record]
    mheap,       \* the bytes of the heap of the multiIter
    mu,          \* multi: its position, the next row, the offsets given to the sortlist,
                 \* and the last row read back
    \* ---- Compact and its worker pool (src/unnamed/part_003) ----
    cmain,       \* Compact: its position, the sorted schemas, the next one to send,
                 \* the workers started, the wait-group counter, the channel closed
    cwork,       \* per worker: its position and the job it received
    cdst,        \* the destination: the tables added, the state root written, the rename
    clog,        \* history: the tables sent and the tables processed, with the worker
    \* ---- DbmsLocal (src/base/ops_test.go) ----
    dbl,         \* the DbmsLocal the callers hold: its libraries
    prevTimestamp, \* the package variable prevTimestamp
    clk,         \* the clock: the time the last Now() returned
    dlog,        \* history: the calls made, with their arguments and results
    \* ---- Seq and seqIter (src/unnamed/part_007) ----
    sq,          \* the seqIter Seq made: from, to, by, i
    sqd,         \* the seqIter Dup returned, or none
    sqlog,       \* history: the values the original and the duplicate returned
    \* ---- ast.Folder (src/compile/ast/folder.go) ----
    fin,         \* the arguments of Folder.In: the subject and the elements
    fout,        \* the expression Folder.In returned, or none
    \* ---- builtin.suScanner and MayLock (src/builtin/scanner.go, src/unnamed/part_001) ----
    scn,         \* the scanner: concurrent, the holder of its lock, the lexer, the item
    scth         \* per thread: the method calls in progress on the scanner, innermost last

storVars == <<size, chunks, lock, implHeap, closed, initial, al, started, allocated, fetched>>

stateVars == <<stObj, metaObj, shState, shMutex, up, rd, rootStatus, rootContent,
               diskStates, installed, committed, mergeNext, nPersist>>

tranVars == <<tdb, tcount, tlog, tr>>

unionVars == <<rows1, rows2, it1, it2, un, res, cur, atEnd, scan>>

repairVars == <<fsys, bld, badTables, rep>>

mergeVars == <<pages, fbt, mbt, mg>>

sumVars == <<su, srows, sit, slog>>

xformVars == <<qt>>

tiVars == <<ti, tiRows, tiIter, tiLog>>

multiVars == <<msource, mheap, mu>>

compactVars == <<cmain, cwork, cdst, clog>>

dbmsVars == <<dbl, prevTimestamp, clk, dlog>>

seqVars == <<sq, sqd, sqlog>>

foldVars == <<fin, fout>>

scanVars == <<scn, scth>>

vars == <<storVars, stateVars, tranVars, unionVars, repairVars, mergeVars, sumVars,
         xformVars,
         tiVars,
         multiVars,
         compactVars,
         dbmsVars,
         seqVars,
         foldVars,
         scanVars>>

\* the variables every action of the store leaves alone
notStor == <<sumVars, mergeVars, stateVars, tranVars, unionVars, repairVars,
    xformVars,
    tiVars,
    multiVars,
    compactVars,
    dbmsVars,
    seqVars,
    foldVars,
    scanVars>>

\* the variables every action of the state holder leaves alone
notState == <<sumVars, mergeVars, storVars, tranVars, unionVars, repairVars,
    xformVars,
    tiVars,
    multiVars,
    compactVars,
    dbmsVars,
    seqVars,
    foldVars,
    scanVars>>

\* the variables every action of the transaction manager leaves alone
notTran == <<sumVars, mergeVars, storVars, stateVars, unionVars, repairVars,
    xformVars,
    tiVars,
    multiVars,
    compactVars,
    dbmsVars,
    seqVars,
    foldVars,
    scanVars>>

\* the variables every action of the union leaves alone
notUnion == <<sumVars, mergeVars, storVars, stateVars, tranVars, repairVars,
    xformVars,
    tiVars,
    multiVars,
    compactVars,
    dbmsVars,
    seqVars,
    foldVars,
    scanVars>>

\* the variables every action on the database file leaves alone
notRepair == <<storVars, stateVars, tranVars, unionVars, mergeVars, sumVars,
    xformVars,
    tiVars,
    multiVars,
    compactVars,
    dbmsVars,
    seqVars,
    foldVars,
    scanVars>>

\* the variables every action of Merge leaves alone
notMerge == <<storVars, stateVars, tranVars, unionVars, repairVars, sumVars,
    xformVars,
    tiVars,
    multiVars,
    compactVars,
    dbmsVars,
    seqVars,
    foldVars,
    scanVars>>

\* the variables every action of a summarize leaves alone
notSum == <<storVars, stateVars, tranVars, unionVars, repairVars, mergeVars,
    xformVars,
    tiVars,
    multiVars,
    compactVars,
    dbmsVars,
    seqVars,
    foldVars,
    scanVars>>

\* the variables every action of Transform leaves alone
notXform == <<storVars, stateVars, tranVars, unionVars, repairVars, mergeVars, sumVars,
    tiVars,
    multiVars,
    compactVars,
    dbmsVars,
    seqVars,
    foldVars,
    scanVars>>

\* the variables every action of a TempIndex leaves alone
notTi == <<storVars, stateVars, tranVars, unionVars, repairVars, mergeVars, sumVars, xformVars,
    multiVars,
    compactVars,
    dbmsVars,
    seqVars,
    foldVars,
    scanVars>>

\* the variables every action of the multi TempIndex leaves alone
notMulti == <<storVars, stateVars, tranVars, unionVars, repairVars, mergeVars, sumVars, xformVars, tiVars,
    compactVars,
    dbmsVars,
    seqVars,
    foldVars,
    scanVars>>

\* the variables every action of Compact leaves alone
notCompact == <<storVars, stateVars, tranVars, unionVars, repairVars, mergeVars, sumVars, xformVars, tiVars, multiVars,
    dbmsVars,
    seqVars,
    foldVars,
    scanVars>>

\* the variables every action of DbmsLocal leaves alone
notDbms == <<storVars, stateVars, tranVars, unionVars, repairVars, mergeVars, sumVars, xformVars, tiVars, multiVars, compactVars,
    seqVars,
    foldVars,
    scanVars>>

\* the variables every action of Seq leaves alone
notSeq == <<storVars, stateVars, tranVars, unionVars, repairVars, mergeVars, sumVars, xformVars, tiVars, multiVars, compactVars, dbmsVars,
    foldVars,
    scanVars>>

\* the variables every action of the folder leaves alone
notFold == <<storVars, stateVars, tranVars, unionVars, repairVars, mergeVars, sumVars, xformVars, tiVars, multiVars, compactVars, dbmsVars, seqVars,
    scanVars>>

\* the variables every action of the scanner leaves alone
notScan == <<storVars, stateVars, tranVars, unionVars, repairVars, mergeVars, sumVars, xformVars, tiVars, multiVars, compactVars, dbmsVars, seqVars, foldVars>>

-----------------------------------------------------------------------------
(* Bounds *)

\* log2 of the chunk size
Shift == 2
\* number of allocating threads
NProcs == 2
\* total number of Alloc calls
MaxAllocs == 2
\* the size the store is opened with
InitialSize == 1
\* number of transactions committed
MaxTran == 2
\* number of Persist calls
MaxPersist == 1
\* number of update transactions
NTran == 2
\* number of keys of the table
NKeys == 1
\* largest key of the rows of a union's sources
MaxKey == 3
\* bytes of a SmallOffset (5 in the code)
SmallOffsetLen == 2
\* bytes of the time in a state root (8 in the code)
dateSize == 2
\* bytes of a checksum (4 in the code)
cksumLen == 1
\* number of meta offsets in a state root
Noffsets == 2
\* log2 of the chunk size of the mapped database file
MmapShift == 4
\* number of state roots written to the file
MaxRoots == 2
\* number of records written to the file
MaxData == 1
\* number of fields altered in the file
MaxDamage == 1
\* largest key of the entries of an fbtree or an mbtree
MaxMergeKey == 3
\* largest value of the summarized column
MaxSumVal == 2
\* number of Gets between two rewinds of a summarize
MaxGets == 4
\* largest value of the by column of a summarize
MaxBy == 3
\* number of rows of the source of a summarize
MaxRows == 3
\* largest value a Select of a summarize asks for
MaxSel == 3
\* depth of the query trees given to Transform
MaxDepth == 3
\* largest raw value of a column of the source of a TempIndex
MaxTiVal == 1
\* number of rows of the source of a TempIndex
MaxTiRows == 3
\* number of Gets between two rewinds of a TempIndex
MaxTiGets == 3
\* ixkey.Min, the empty string, as a raw value
ixkeyMin == 0
\* number of records of a row of a multi TempIndex, len(ti.hdr.Fields)
NRecs == 2
\* length of the longest derived record
MaxDerivedLen == 2
\* number of rows of the source of a multi TempIndex
MaxMultiRows == 2
\* largest size of a row in the heap (8 * 1024 in the code)
derivedMaxSize == 7
\* chunk size of the heap (16 * 1024 in the code)
heapChunkSize == 14
\* number of tables of the database Compact copies
MaxTables == 2
\* largest options.Nworkers
MaxWorkers == 2
\* latest time the clock of Timestamp reaches, in milliseconds
MaxClock == 2
\* number of calls made on a DbmsLocal
MaxCalls == 3
\* largest number given to Seq
MaxSeq == 3
\* largest step given to Seq
MaxSeqBy == 2
\* number of Next calls on one iterator
MaxSeqGets == 3
\* ints.MaxInt, of a 32-bit int
MaxInt == 2147483647
\* the value True, kept apart from the numbers
True == -2
\* the value False, kept apart from the numbers
False == -1
\* largest value of a constant given to the folder
MaxFoldVal == 1
\* number of identifiers given to the folder
NIdents == 2
\* largest number of elements of an in expression
MaxIn == 2
\* number of threads that may come to hold the scanner
NScanThreads == 2
\* number of tokens of the longest source scanned
MaxTokens == 2
\* number of method calls made on a scanner
MaxScanCalls == 3

-----------------------------------------------------------------------------
(* stor.Stor *)

Procs == 1..NProcs

chunksize == 2 ^ Shift

\* NewStor: threshold := chunksize * 3 / 4
threshold == (chunksize * 3) \div 4

\* math.MaxUint64: a size no allocation reaches
closedSize == -1

offsetToChunk(offset) == offset \div chunksize

chunkToOffset(chunk) == chunk * chunksize

\* the request sizes tried: the smallest, one that passes the threshold, a whole chunk
AllocSizes == {1, threshold, chunksize}

alIdle == [pc |-> "idle", n |-> 0, oldsize |-> 0, offset |-> 0, newsize |-> 0, chunk |-> 0,
           lost |-> FALSE, late |-> FALSE]

NewStor ==
    /\ initial = InitialSize
    /\ size = initial
    /\ chunks = <<0>>
    /\ lock = 0
    /\ implHeap \in BOOLEAN
    /\ closed = FALSE
    /\ al = [p \in Procs |-> alIdle]
    /\ started = 0
    /\ allocated = <<>>
    /\ fetched = <<>>

\* Alloc is entered: assert.That(0 < n && n <= int(s.chunksize))
AllocCall(p, n) ==
    /\ al[p].pc = "idle"
    /\ started < MaxAllocs
    /\ 0 < n /\ n <= chunksize
    /\ al' = [al EXCEPT ![p] = [alIdle EXCEPT !.pc = "load", !.n = n]]
    /\ started' = started + 1
    /\ UNCHANGED <<size, chunks, lock, implHeap, closed, initial, allocated, fetched>>
    /\ UNCHANGED notStor

\* the straddle test of Alloc: mutated form, off by one
straddleStrict(chunk, nchunks) == chunk > nchunks

\* if chunk >= nchunks { // straddle
straddle(chunk, nchunks) == chunk >= nchunks

\* no test of the size loaded: mutated form
neverClosed(sz) == FALSE

\* if oldsize == closedSize { log.Println(...); exit.Wait() }
isClosed(sz) == sz = closedSize

\* the size with the allocation left out: mutated form
sizeWithoutN(offset, n) == offset

\* newsize := offset + uint64(n)
newSize(offset, n) == offset + n

\* oldsize := s.size.Load() and the computation of offset, newsize, chunk, nchunks
AllocLoad(p) ==
    /\ al[p].pc = "load"
    /\ IF isClosed(size)
       THEN al' = [al EXCEPT ![p].pc = "fatal"]
       ELSE LET oldsize == size
                newsize == newSize(oldsize, al[p].n)
                chunk   == offsetToChunk(newsize)
                nchunks == offsetToChunk(oldsize + chunksize - 1)
            IN  al' = [al EXCEPT ![p] =
                    [@ EXCEPT !.oldsize = oldsize, !.offset = oldsize,
                              !.newsize = newsize, !.chunk = chunk,
                              !.pc = IF straddle(chunk, nchunks) THEN "straddle" ELSE "cas"]]
    /\ UNCHANGED <<size, chunks, lock, implHeap, closed, initial, started, allocated, fetched>>
    /\ UNCHANGED notStor

\* the straddle branch: chunks := s.chunks.Load(); if chunk >= len(chunks) { s.getChunk(chunk) }
AllocStraddle(p) ==
    /\ al[p].pc = "straddle"
    /\ IF al[p].chunk >= Len(chunks)
       THEN al' = [al EXCEPT ![p].pc = "getChunk1"]
       ELSE al' = [al EXCEPT ![p] =
                [@ EXCEPT !.offset = chunkToOffset(al[p].chunk),
                          !.newsize = newSize(chunkToOffset(al[p].chunk), al[p].n),
                          !.pc = "cas"]]
    /\ UNCHANGED <<size, chunks, lock, implHeap, closed, initial, started, allocated, fetched>>
    /\ UNCHANGED notStor

\* getChunk: s.lock.Lock()
getChunkLock(p) ==
    /\ al[p].pc \in {"getChunk1", "getChunk2"}
    /\ lock = 0
    /\ lock' = p
    /\ al' = [al EXCEPT ![p].pc = IF al[p].pc = "getChunk1" THEN "inChunk1" ELSE "inChunk2"]
    /\ UNCHANGED <<size, chunks, implHeap, closed, initial, started, allocated, fetched>>
    /\ UNCHANGED notStor

\* getChunk under the lock: append impl.Get(chunk) if no one beat us, unlock, and return
\* to Alloc (to the straddle branch, or to the return after the threshold)
getChunk(p) ==
    /\ al[p].pc \in {"inChunk1", "inChunk2"}
    /\ lock = p
    /\ IF al[p].chunk >= Len(chunks)
       THEN /\ chunks' = Append(chunks, al[p].chunk)
            /\ fetched' = Append(fetched, al[p].chunk)
       ELSE UNCHANGED <<chunks, fetched>>
    /\ lock' = 0
    /\ IF al[p].pc = "inChunk1"
       THEN al' = [al EXCEPT ![p] =
                [@ EXCEPT !.offset = chunkToOffset(al[p].chunk),
                          !.newsize = newSize(chunkToOffset(al[p].chunk), al[p].n),
                          !.pc = "cas"]]
       ELSE al' = [al EXCEPT ![p].pc = "ret"]
    /\ UNCHANGED <<size, implHeap, closed, initial, started, allocated>>
    /\ UNCHANGED notStor

\* a store in place of the compare-and-swap: mutated form
storeAlways(current, old) == TRUE

\* a compare-and-swap that fails although the size is unchanged: mutated form
casNever(current, old) == FALSE

\* whether s.size.CompareAndSwap(oldsize, newsize) succeeds
CompareAndSwap(current, old) == current = old

\* if s.size.CompareAndSwap(oldsize, newsize) { ... } // else loop and try again
AllocCas(p) ==
    /\ al[p].pc = "cas"
    /\ IF CompareAndSwap(size, al[p].oldsize)
       THEN /\ size' = al[p].newsize
            /\ al' = [al EXCEPT ![p].pc = "post", ![p].late = closed]
       ELSE /\ al' = [al EXCEPT ![p].pc = "load", ![p].lost = TRUE]
            /\ UNCHANGED size
    /\ UNCHANGED <<chunks, lock, implHeap, closed, initial, started, allocated, fetched>>
    /\ UNCHANGED notStor

\* proactively get next chunk if we passed the threshold
AllocThreshold(p) ==
    /\ al[p].pc = "post"
    /\ LET i == al[p].offset % chunksize
       IN  IF i <= threshold /\ i + al[p].n > threshold
           THEN al' = [al EXCEPT ![p] =
                    [@ EXCEPT !.chunk = offsetToChunk(al[p].offset) + 1, !.pc = "getChunk2"]]
           ELSE al' = [al EXCEPT ![p].pc = "ret"]
    /\ UNCHANGED <<size, chunks, lock, implHeap, closed, initial, started, allocated, fetched>>
    /\ UNCHANGED notStor

\* Data(offset): chunks[chunk] panics when chunk is past the table
DataOk(offset) == offsetToChunk(offset) < Len(chunks)

\* return offset, s.Data(offset)[:n:n]
AllocReturn(p) ==
    /\ al[p].pc = "ret"
    /\ allocated' = Append(allocated,
            [p |-> p, off |-> al[p].offset, n |-> al[p].n, old |-> al[p].oldsize,
             lost |-> al[p].lost, late |-> al[p].late, mapped |-> DataOk(al[p].offset),
             chunk |-> IF DataOk(al[p].offset)
                       THEN chunks[offsetToChunk(al[p].offset) + 1] ELSE -1])
    /\ al' = [al EXCEPT ![p] = alIdle]
    /\ UNCHANGED <<size, chunks, lock, implHeap, closed, initial, started, fetched>>
    /\ UNCHANGED notStor

\* Close: a heapStor keeps its size, any other implementation swaps in closedSize
Close ==
    /\ ~closed
    /\ closed' = TRUE
    /\ size' = IF implHeap THEN size ELSE closedSize
    /\ UNCHANGED <<chunks, lock, implHeap, initial, al, started, allocated, fetched>>
    /\ UNCHANGED notStor

\* Size: fatal ("Stor: Size after Close") when the size is the sentinel
SizeFatal == size = closedSize

StorIdle == NewStor /\ implHeap = FALSE

StorNext ==
    \/ \E p \in Procs, n \in AllocSizes : AllocCall(p, n)
    \/ \E p \in Procs : AllocLoad(p)
    \/ \E p \in Procs : AllocStraddle(p)
    \/ \E p \in Procs : getChunkLock(p)
    \/ \E p \in Procs : getChunk(p)
    \/ \E p \in Procs : AllocCas(p)
    \/ \E p \in Procs : AllocThreshold(p)
    \/ \E p \in Procs : AllocReturn(p)
    \/ Close


-----------------------------------------------------------------------------
(* stateHolder, DbState, Merge, Persist (src/db19/state.go) *)

Updaters == {"commit", "merger", "persister"}

upIdle == [pc |-> "idle", newState |-> 0, base |-> 0, meta |-> 0, state |-> 0,
           updates |-> [kind |-> "none"]]

rdIdle == [snap |-> 0, val |-> [kind |-> "none"], during |-> FALSE, at |-> 0]

\* the database as opened: one DbState whose meta refers to a written, empty index root
StateInit ==
    /\ stObj = <<[store |-> "store", meta |-> 1]>>
    /\ metaObj = <<[root |-> 1, mb |-> {}, ovl |-> {}]>>
    /\ shState = 1
    /\ shMutex = "free"
    /\ up = [u \in Updaters |-> upIdle]
    /\ rd = rdIdle
    /\ rootStatus = <<"written">>
    /\ rootContent = <<{}>>
    /\ diskStates = <<>>
    /\ installed = <<[id |-> 1, base |-> 0, by |-> "open",
                      val |-> [store |-> "store", meta |-> [root |-> 1, mb |-> {}, ovl |-> {}]]]>>
    /\ committed = {}
    /\ mergeNext = 1
    /\ nPersist = 0

StateIdle == StateInit

\* what a DbState pointer refers to: the DbState with its meta followed
DeepVal(id) == [store |-> stObj[id].store, meta |-> metaObj[stObj[id].meta]]

\* stateHolder.get: atomic.LoadPointer(&sh.state)
get == shState

\* GetState by a reader: db.state.get(), no lock taken
GetState ==
    /\ rd' = [snap |-> get, val |-> DeepVal(get), during |-> shMutex # "free",
              at |-> Len(installed)]
    /\ UNCHANGED <<stObj, metaObj, shState, shMutex, up, rootStatus, rootContent,
                   diskStates, installed, committed, mergeNext, nPersist>>
    /\ UNCHANGED notState

\* a commit calls UpdateState with a function that adds the transaction's overlay
CommitCall ==
    /\ up["commit"].pc = "idle"
    /\ Cardinality(committed) < MaxTran
    /\ up' = [up EXCEPT !["commit"] =
            [upIdle EXCEPT !.pc = "lock",
                           !.updates = [kind |-> "commit", tran |-> Cardinality(committed) + 1]]]
    /\ UNCHANGED <<stObj, metaObj, shState, shMutex, rd, rootStatus, rootContent,
                   diskStates, installed, committed, mergeNext, nPersist>>
    /\ UNCHANGED notState

\* Merge(tranNum): state := db.GetState()
MergeGet ==
    /\ up["merger"].pc = "idle"
    /\ mergeNext \in committed
    /\ up' = [up EXCEPT !["merger"] = [upIdle EXCEPT !.pc = "mMerge", !.state = get]]
    /\ UNCHANGED <<stObj, metaObj, shState, shMutex, rd, rootStatus, rootContent,
                   diskStates, installed, committed, mergeNext, nPersist>>
    /\ UNCHANGED notState

\* meta.Merge(tranNum): the update that folds the transaction's overlay into the
\* shared mbtree
metaMerge(m, tranNum) == [kind |-> "merge", tran |-> tranNum]

\* Merge: updates := state.meta.Merge(tranNum) // outside UpdateState
MergeUpdates ==
    /\ up["merger"].pc = "mMerge"
    /\ up' = [up EXCEPT !["merger"].pc = "lock",
                        !["merger"].updates =
                            metaMerge(metaObj[stObj[up["merger"].state].meta], mergeNext)]
    /\ mergeNext' = mergeNext + 1
    /\ UNCHANGED <<stObj, metaObj, shState, shMutex, rd, rootStatus, rootContent,
                   diskStates, installed, committed, nPersist>>
    /\ UNCHANGED notState

\* the statements of Persist in a wrong order, indexes saved after the swap: mutated form
PersistSwapped == <<"pPersist", "lock", "pSaved", "pWrite", "idle">>

\* the statements of Persist after state := db.GetState(), in program order:
\* state.meta.Persist (entered, returned), db.UpdateState, state.Write, return
PersistSteps == <<"pPersist", "pSaved", "lock", "pWrite", "idle">>

\* the statement of Persist that follows the one at pc
persistAfter(pc) ==
    LET i == CHOOSE k \in 1..Len(PersistSteps) : PersistSteps[k] = pc
    IN  PersistSteps[i + 1]

\* Persist: state := db.GetState()
PersistGet ==
    /\ up["persister"].pc = "idle"
    /\ nPersist < MaxPersist
    /\ nPersist' = nPersist + 1
    /\ up' = [up EXCEPT !["persister"] =
            [upIdle EXCEPT !.pc = PersistSteps[1], !.state = get]]
    /\ UNCHANGED <<stObj, metaObj, shState, shMutex, rd, rootStatus, rootContent,
                   diskStates, installed, committed, mergeNext>>
    /\ UNCHANGED notState

\* meta.Persist is entered: a new index root holding the old root and the shared
\* mbtree starts being written to the store
PersistIndexes ==
    /\ up["persister"].pc = "pPersist"
    /\ LET m == metaObj[stObj[up["persister"].state].meta]
       IN  /\ rootStatus' = Append(rootStatus, "partial")
           /\ rootContent' = Append(rootContent, rootContent[m.root] \cup m.mb)
           /\ up' = [up EXCEPT !["persister"].pc = persistAfter("pPersist"),
                               !["persister"].updates =
                                   [kind |-> "persist", root |-> Len(rootStatus) + 1, mb |-> m.mb]]
    /\ UNCHANGED <<stObj, metaObj, shState, shMutex, rd,
                   diskStates, installed, committed, mergeNext, nPersist>>
    /\ UNCHANGED notState

\* meta.Persist returns: the new index root is completely written
PersistSaved ==
    /\ up["persister"].pc = "pSaved"
    /\ rootStatus' = [rootStatus EXCEPT ![up["persister"].updates.root] = "written"]
    /\ up' = [up EXCEPT !["persister"].pc = persistAfter("pSaved")]
    /\ UNCHANGED <<stObj, metaObj, shState, shMutex, rd, rootContent,
                   diskStates, installed, committed, mergeNext, nPersist>>
    /\ UNCHANGED notState

\* the mutex taken without waiting for it: mutated form
mutexIgnored(m) == TRUE

\* sync.Mutex: Lock returns only when the mutex is free
mutexFree(m) == m = "free"

\* updateState: sh.mutex.Lock()
Lock(u) ==
    /\ up[u].pc = "lock"
    /\ mutexFree(shMutex)
    /\ shMutex' = u
    /\ up' = [up EXCEPT ![u].pc = "copy"]
    /\ UNCHANGED <<stObj, metaObj, shState, rd, rootStatus, rootContent,
                   diskStates, installed, committed, mergeNext, nPersist>>
    /\ UNCHANGED notState

\* newState := sh.get() with the copy forgotten: mutated form
aliasObj(objs, id) == [objs |-> objs, ptr |-> id]

\* newState := *sh.get() // shallow copy: a new object with the same fields
shallowCopy(objs, id) == [objs |-> Append(objs, objs[id]), ptr |-> Len(objs) + 1]

\* updateState: newState := *sh.get()
Copy(u) ==
    /\ up[u].pc = "copy"
    /\ LET c == shallowCopy(stObj, get)
       IN  /\ stObj' = c.objs
           /\ up' = [up EXCEPT ![u].pc = "fnCopy", ![u].newState = c.ptr, ![u].base = get]
    /\ UNCHANGED <<metaObj, shState, shMutex, rd, rootStatus, rootContent,
                   diskStates, installed, committed, mergeNext, nPersist>>
    /\ UNCHANGED notState

\* meta := state.meta with the copy forgotten: mutated form
aliasMeta(objs, id) == [objs |-> objs, ptr |-> id]

\* meta := *state.meta // copy
copyMeta(objs, id) == [objs |-> Append(objs, objs[id]), ptr |-> Len(objs) + 1]

\* the update function: meta := *state.meta
FnCopy(u) ==
    /\ up[u].pc = "fnCopy"
    /\ LET c == copyMeta(metaObj, stObj[up[u].newState].meta)
       IN  /\ metaObj' = c.objs
           /\ up' = [up EXCEPT ![u].pc = "fnApply", ![u].meta = c.ptr]
    /\ UNCHANGED <<stObj, shState, shMutex, rd, rootStatus, rootContent,
                   diskStates, installed, committed, mergeNext, nPersist>>
    /\ UNCHANGED notState

\* meta.ApplyMerge, meta.ApplyPersist and the commit's update of the meta
Apply(m, updates) ==
    CASE updates.kind = "commit"  -> [m EXCEPT !.ovl = @ \cup {updates.tran}]
      [] updates.kind = "merge"   -> [m EXCEPT !.ovl = @ \ {updates.tran},
                                               !.mb = @ \cup {updates.tran}]
      [] updates.kind = "persist" -> [m EXCEPT !.root = updates.root, !.mb = @ \ updates.mb]

\* the update function: meta.ApplyMerge(updates) / meta.ApplyPersist(updates)
FnApply(u) ==
    /\ up[u].pc = "fnApply"
    /\ metaObj' = [metaObj EXCEPT ![up[u].meta] = Apply(@, up[u].updates)]
    /\ up' = [up EXCEPT ![u].pc = "fnAssign"]
    /\ UNCHANGED <<stObj, shState, shMutex, rd, rootStatus, rootContent,
                   diskStates, installed, committed, mergeNext, nPersist>>
    /\ UNCHANGED notState

\* the update function: state.meta = &meta
FnAssign(u) ==
    /\ up[u].pc = "fnAssign"
    /\ stObj' = [stObj EXCEPT ![up[u].newState].meta = up[u].meta]
    /\ up' = [up EXCEPT ![u].pc = "set"]
    /\ UNCHANGED <<metaObj, shState, shMutex, rd, rootStatus, rootContent,
                   diskStates, installed, committed, mergeNext, nPersist>>
    /\ UNCHANGED notState

\* updateState: sh.set(&newState), atomic.StorePointer
set(u) ==
    /\ up[u].pc = "set"
    /\ shState' = up[u].newState
    /\ installed' = Append(installed,
            [id |-> up[u].newState, base |-> up[u].base, by |-> u,
             val |-> DeepVal(up[u].newState)])
    /\ committed' = IF up[u].updates.kind = "commit"
                    THEN committed \cup {up[u].updates.tran} ELSE committed
    /\ up' = [up EXCEPT ![u].pc = "unlock"]
    /\ UNCHANGED <<stObj, metaObj, shMutex, rd, rootStatus, rootContent,
                   diskStates, mergeNext, nPersist>>
    /\ UNCHANGED notState

\* updateState: the deferred sh.mutex.Unlock() and the return to the caller
Unlock(u) ==
    /\ up[u].pc = "unlock"
    /\ shMutex' = "free"
    /\ up' = [up EXCEPT ![u].pc = IF u = "persister" THEN persistAfter("lock") ELSE "idle",
                        ![u].state = up[u].newState]
    /\ UNCHANGED <<stObj, metaObj, shState, rd, rootStatus, rootContent,
                   diskStates, installed, committed, mergeNext, nPersist>>
    /\ UNCHANGED notState

\* Persist: return state.Write(): meta.Write and writeState put a state root,
\* referring to the state's index root, in the store
Write ==
    /\ up["persister"].pc = "pWrite"
    /\ diskStates' = Append(diskStates,
            [state |-> up["persister"].state,
             root |-> metaObj[stObj[up["persister"].state].meta].root])
    /\ up' = [up EXCEPT !["persister"].pc = persistAfter("pWrite")]
    /\ UNCHANGED <<stObj, metaObj, shState, shMutex, rd, rootStatus, rootContent,
                   installed, committed, mergeNext, nPersist>>
    /\ UNCHANGED notState

StateNext ==
    \/ GetState
    \/ CommitCall
    \/ MergeGet
    \/ MergeUpdates
    \/ PersistGet
    \/ PersistIndexes
    \/ PersistSaved
    \/ \E u \in Updaters : Lock(u)
    \/ \E u \in Updaters : Copy(u)
    \/ \E u \in Updaters : FnCopy(u)
    \/ \E u \in Updaters : FnApply(u)
    \/ \E u \in Updaters : FnAssign(u)
    \/ \E u \in Updaters : set(u)
    \/ \E u \in Updaters : Unlock(u)
    \/ Write

-----------------------------------------------------------------------------
(* MVCC transaction manager (spec section 4.5) *)

Trans == 1..NTran

TranKeys == 1..NKeys

trNone == [st |-> "none", start |-> 0, snap |-> {}, reads |-> {}, writes |-> {},
           err |-> "", tried |-> FALSE]

TranInit ==
    /\ tdb = {}
    /\ tcount = 0
    /\ tlog = <<>>
    /\ tr = [t \in Trans |-> trNone]

TranIdle == TranInit

\* an update transaction begins: it captures the committed snapshot
Begin(t) ==
    /\ tr[t].st = "none"
    /\ tr' = [tr EXCEPT ![t] = [trNone EXCEPT !.st = "active", !.start = tcount, !.snap = tdb]]
    /\ UNCHANGED <<tdb, tcount, tlog>>
    /\ UNCHANGED notTran

\* the transaction reads t where k = key: the key's range enters its read set
Read(t, k) ==
    /\ tr[t].st = "active"
    /\ k \notin tr[t].reads
    /\ tr' = [tr EXCEPT ![t].reads = @ \cup {k}]
    /\ UNCHANGED <<tdb, tcount, tlog>>
    /\ UNCHANGED notTran

\* the transaction inserts a key that its snapshot and its own writes do not hold
Insert(t, k) ==
    /\ tr[t].st = "active"
    /\ k \notin tr[t].snap \cup tr[t].writes
    /\ tr' = [tr EXCEPT ![t].writes = @ \cup {k}]
    /\ UNCHANGED <<tdb, tcount, tlog>>
    /\ UNCHANGED notTran

\* the conflict check that misses the first commit after the start: mutated form
conflictAfterNext(t) ==
    \E i \in (tr[t].start + 2)..Len(tlog) :
        tlog[i].writes \cap (tr[t].reads \cup tr[t].writes) # {}

\* commit, step 2: a transaction committed since the start has written a key inside
\* the read range or duplicating a unique key of the write set
conflict(t) ==
    \E i \in (tr[t].start + 1)..Len(tlog) :
        tlog[i].writes \cap (tr[t].reads \cup tr[t].writes) # {}

\* commit under the serial commit mutex: validate, then fold the write set into the
\* state and advance the commit counter, or abort with Conflict
Commit(t) ==
    /\ tr[t].st = "active"
    /\ IF tr[t].writes # {} /\ conflict(t)
       THEN /\ tr' = [tr EXCEPT ![t].st = "aborted", ![t].err = "Conflict", ![t].tried = TRUE]
            /\ UNCHANGED <<tdb, tcount, tlog>>
       ELSE /\ tr' = [tr EXCEPT ![t].st = "committed", ![t].tried = TRUE]
            /\ tdb' = tdb \cup tr[t].writes
            /\ tcount' = tcount + 1
            /\ tlog' = Append(tlog, [tran |-> t, writes |-> tr[t].writes])
    /\ UNCHANGED notTran

\* explicit abort
Abort(t) ==
    /\ tr[t].st = "active"
    /\ tr' = [tr EXCEPT ![t].st = "aborted"]
    /\ UNCHANGED <<tdb, tcount, tlog>>
    /\ UNCHANGED notTran

TranNext ==
    \/ \E t \in Trans : Begin(t)
    \/ \E t \in Trans, k \in TranKeys : Read(t, k)
    \/ \E t \in Trans, k \in TranKeys : Insert(t, k)
    \/ \E t \in Trans : Commit(t)
    \/ \E t \in Trans : Abort(t)

-----------------------------------------------------------------------------
(* query.Union: execution (src/unnamed/part_002) *)

\* nil
Nil == <<>>

\* the rows a source can hold: a key column and a second column
UnionRows == {<<k, v>> : k \in 1..MaxKey, v \in {0, 1}}

\* Union.compare: the merge columns compared in order, the key column first
compare(row1, row2) ==
    IF row1[1] # row2[1] THEN (IF row1[1] < row2[1] THEN -1 ELSE 1)
    ELSE IF row1[2] # row2[2] THEN (IF row1[2] < row2[2] THEN -1 ELSE 1)
    ELSE 0

RECURSIVE SortedRows(_)
\* the rows of a set in ascending order of the merge columns
SortedRows(S) ==
    IF S = {} THEN <<>>
    ELSE LET m == CHOOSE r \in S : \A q \in S : compare(r, q) <= 0
         IN  <<m>> \o SortedRows(S \ {m})

\* the contents a keyed source can have: at most one row per key
KeyedSources == {S \in SUBSET UnionRows : \A r, q \in S : r[1] = q[1] => r = q}

\* a source iterator as setApproach and Rewind leave it
itRewound == [pos |-> 0, st |-> "rewound"]

\* Get of a source: the first (last) row after a rewind, else the next (previous)
\* one; nil at the end, and nil again until the source is rewound
SourceGet(rows, it, dir) ==
    IF it.st = "eof" THEN [it |-> it, row |-> Nil]
    ELSE LET pos == IF it.st = "rewound"
                    THEN (IF dir = "Next" THEN 1 ELSE Len(rows))
                    ELSE (IF dir = "Next" THEN it.pos + 1 ELSE it.pos - 1)
         IN  IF pos < 1 \/ pos > Len(rows)
             THEN [it |-> [pos |-> 0, st |-> "eof"], row |-> Nil]
             ELSE [it |-> [pos |-> pos, st |-> "within"], row |-> rows[pos]]

\* Compatible.source2Has: source2 has a row with the same key and equal columns
source2Has(row) == \E i \in 1..Len(rows2) : rows2[i] = row

unionStrategies == {"unionMerge", "unionLookup"}

\* setApproach: the strategy is set and the union is rewound
UnionInit ==
    /\ rows1 \in {SortedRows(S) : S \in KeyedSources}
    /\ rows2 \in {SortedRows(S) : S \in KeyedSources}
    /\ it1 = itRewound
    /\ it2 = itRewound
    /\ un \in {[strategy |-> s, rewound |-> TRUE, src1 |-> FALSE, src2 |-> FALSE,
                row1 |-> Nil, row2 |-> Nil, prevDir |-> "none"] : s \in unionStrategies}
    /\ res = Nil
    /\ cur = 0
    /\ atEnd = FALSE
    /\ scan = [ok |-> TRUE, dir |-> "none", rows |-> <<>>, done |-> FALSE]

UnionIdle ==
    /\ rows1 = <<>>
    /\ rows2 = <<>>
    /\ it1 = itRewound
    /\ it2 = itRewound
    /\ un = [strategy |-> "unionMerge", rewound |-> TRUE, src1 |-> FALSE, src2 |-> FALSE,
             row1 |-> Nil, row2 |-> Nil, prevDir |-> "none"]
    /\ res = Nil
    /\ cur = 0
    /\ atEnd = FALSE
    /\ scan = [ok |-> TRUE, dir |-> "none", rows |-> <<>>, done |-> FALSE]

\* getMerge, get1 and get2: if dir != u.prevDir && u.row == nil { source.Rewind() };
\* u.row = source.Get(th, dir)
getSide(rows, it, row, dir) ==
    SourceGet(rows, IF dir # un.prevDir /\ row = Nil THEN itRewound ELSE it, dir)

\* the other source left where it is when the direction changes: mutated form
keepOther(dir, prevDir) == FALSE

\* getMerge: if dir != u.prevDir { get2() } (get1() in the src2 branch)
refillOther(dir, prevDir) == dir # prevDir

\* equal rows never recognised: mutated form
neverIdentical(cmp) == FALSE

\* getMerge: if cmp == 0 { // rows identical, arbitrarily return row1
identical(cmp) == cmp = 0

\* getMerge: the sources, rows and flags after the call, and the row returned
getMerge(dir) ==
    LET both == un.rewound \/ (un.src1 /\ un.src2)
        do1  == both \/ un.src1 \/ (un.src2 /\ refillOther(dir, un.prevDir))
        do2  == both \/ (~un.src1 /\ un.src2) \/ (un.src1 /\ refillOther(dir, un.prevDir))
        g1   == IF do1 THEN getSide(rows1, it1, un.row1, dir) ELSE [it |-> it1, row |-> un.row1]
        g2   == IF do2 THEN getSide(rows2, it2, un.row2, dir) ELSE [it |-> it2, row |-> un.row2]
        cmp0 == compare(g1.row, g2.row)
        cmp  == IF dir = "Prev" THEN -cmp0 ELSE cmp0
        pick == IF g1.row = Nil /\ g2.row = Nil THEN "none"
                ELSE IF g2.row = Nil THEN "1"
                ELSE IF g1.row = Nil THEN "2"
                ELSE IF identical(cmp0) THEN "both"
                ELSE IF cmp < 0 THEN "1" ELSE "2"
    IN  [it1 |-> g1.it, it2 |-> g2.it,
         un  |-> [un EXCEPT !.row1 = g1.row, !.row2 = g2.row, !.prevDir = dir,
                            !.src1 = pick \in {"none", "both", "1"},
                            !.src2 = pick \in {"none", "both", "2"}],
         row |-> IF pick = "none" THEN Nil
                 ELSE IF pick \in {"1", "both"} THEN g1.row ELSE g2.row]

RECURSIVE getSource1(_, _)
\* getLookup, the inner loop: the next row of source1 that source2 does not have
getSource1(it, dir) ==
    LET g == SourceGet(rows1, it, dir)
    IN  IF g.row = Nil \/ ~source2Has(g.row) THEN g ELSE getSource1(g.it, dir)

\* the starting source chosen the wrong way round: mutated form
startInverted(dir) == dir = "Prev"

\* getLookup: if u.rewound { u.src1 = (dir == Next) }
startInSource1(dir) == dir = "Next"

\* getLookup: the sources and flags after the call, and the row returned
getLookup(dir) ==
    LET src1 == IF un.rewound THEN startInSource1(dir) ELSE un.src1
    IN  IF src1
        THEN LET g1 == getSource1(it1, dir)
             IN  IF g1.row # Nil \/ dir = "Prev"
                 THEN [it1 |-> g1.it, it2 |-> it2, un |-> [un EXCEPT !.src1 = TRUE],
                       row |-> g1.row]
                 ELSE \* u.src1 = false; u.source2.Rewind(); then the source2 branch
                      LET g2 == SourceGet(rows2, itRewound, dir)
                      IN  [it1 |-> g1.it, it2 |-> g2.it, un |-> [un EXCEPT !.src1 = FALSE],
                           row |-> g2.row]
        ELSE LET g2 == SourceGet(rows2, it2, dir)
             IN  IF g2.row # Nil \/ dir = "Next"
                 THEN [it1 |-> it1, it2 |-> g2.it, un |-> [un EXCEPT !.src1 = FALSE],
                       row |-> g2.row]
                 ELSE \* u.src1 = true; then the source1 branch
                      LET g1 == getSource1(it1, dir)
                      IN  [it1 |-> g1.it, it2 |-> g2.it, un |-> [un EXCEPT !.src1 = TRUE],
                           row |-> g1.row]

\* the rows of the union in merge order, each once
MergedRows == SortedRows({rows1[i] : i \in 1..Len(rows1)} \cup {rows2[i] : i \in 1..Len(rows2)})

\* Union.Get: the strategy's get, then the deferred u.rewound = false; the caller
\* moves its cursor as the test does
Get(dir) ==
    /\ ~atEnd
    /\ LET g == IF un.strategy = "unionLookup" THEN getLookup(dir) ELSE getMerge(dir)
           n == Len(MergedRows)
       IN  /\ it1' = g.it1
           /\ it2' = g.it2
           /\ un' = [g.un EXCEPT !.rewound = FALSE]
           /\ res' = g.row
           /\ atEnd' = (g.row = Nil)
           /\ cur' = IF dir = "Next" THEN (cur + 1) % (n + 1)
                     ELSE IF cur = 0 THEN n ELSE cur - 1
           /\ scan' = IF un.rewound
                      THEN [ok |-> TRUE, dir |-> dir, done |-> g.row = Nil,
                            rows |-> IF g.row = Nil THEN <<>> ELSE <<g.row>>]
                      ELSE IF scan.ok /\ scan.dir = dir
                      THEN [scan EXCEPT !.done = (g.row = Nil),
                                        !.rows = IF g.row = Nil THEN @ ELSE Append(@, g.row)]
                      ELSE [ok |-> FALSE, dir |-> "none", rows |-> <<>>, done |-> FALSE]
    /\ UNCHANGED <<rows1, rows2>>
    /\ UNCHANGED notUnion

\* Union.Rewind: both sources are rewound and u.rewound is set
Rewind ==
    /\ ~un.rewound
    /\ it1' = itRewound
    /\ it2' = itRewound
    /\ un' = [un EXCEPT !.rewound = TRUE]
    /\ cur' = 0
    /\ res' = Nil
    /\ atEnd' = FALSE
    /\ UNCHANGED <<rows1, rows2, scan>>
    /\ UNCHANGED notUnion

UnionNext ==
    \/ \E dir \in {"Next", "Prev"} : Get(dir)
    \/ Rewind

-----------------------------------------------------------------------------
(* State roots (src/db19/state.go) and Repair (src/unnamed/part_004) *)

Bytes == 0..255

\* the file magic at offset 0; the size slot follows it
magic == <<103>>

magic1 == <<1, 35>>

magic2 == <<254, 220>>

\* n bytes, most significant first (binary.BigEndian.PutUint64)
RECURSIVE PutUint(_, _)
PutUint(v, n) == IF n = 0 THEN <<>> ELSE Append(PutUint(v \div 256, n - 1), v % 256)

\* n bytes, least significant first
RECURSIVE byteLE(_, _)
byteLE(v, n) == IF n = 0 THEN <<>> ELSE <<v % 256>> \o byteLE(v \div 256, n - 1)

RECURSIVE uintLE(_)
uintLE(bs) == IF bs = <<>> THEN 0 ELSE bs[1] + 256 * uintLE(Tail(bs))

leastSignificantFirst(bs) == uintLE(bs)

\* binary.BigEndian.Uint64
RECURSIVE Uint(_)
Uint(bs) == IF bs = <<>> THEN 0 ELSE Uint(SubSeq(bs, 1, Len(bs) - 1)) * 256 + bs[Len(bs)]

WriteSmallOffset(o) == byteLE(o, SmallOffsetLen)

ReadSmallOffset(bs) == uintLE(bs)

\* the offsets a SmallOffset can hold
SmallOffsets == 0..(256 ^ SmallOffsetLen - 1)

RECURSIVE SumBytes(_)
SumBytes(bs) == IF bs = <<>> THEN 0 ELSE bs[1] + SumBytes(Tail(bs))

\* the checksum of data, cksumLen bytes: narrower than the data it covers
cksum(data) == PutUint(SumBytes(data) % (256 ^ cksumLen), cksumLen)

\* cksum.Update(buf): the last cksumLen bytes become the checksum of the rest
cksumUpdate(data) == data \o cksum(data)

\* cksum.MustCheck(buf): false where the code panics
cksumCheck(buf) ==
    /\ Len(buf) >= cksumLen
    /\ SubSeq(buf, Len(buf) - cksumLen + 1, Len(buf))
           = cksum(SubSeq(buf, 1, Len(buf) - cksumLen))

stateLen == Len(magic1) + dateSize + Noffsets * SmallOffsetLen + Len(magic2) + cksumLen

magic2at == stateLen - Len(magic2)

RECURSIVE encodeOffsets(_)
encodeOffsets(offsets) ==
    IF offsets = <<>> THEN <<>>
    ELSE WriteSmallOffset(Head(offsets)) \o encodeOffsets(Tail(offsets))

\* the bytes writeState puts in the allocation
stateBytes(offsets, t) ==
    cksumUpdate(magic1 \o PutUint(t, dateSize) \o encodeOffsets(offsets)) \o magic2

mmapChunk == 2 ^ MmapShift

Zeros(n) == [i \in 1..n |-> 0]

\* the offset Alloc(n) returns in a store of the given size, one thread allocating
allocOffset(sz, n) ==
    IF (sz + n) \div mmapChunk >= (sz + mmapChunk - 1) \div mmapChunk
    THEN ((sz + n) \div mmapChunk) * mmapChunk
    ELSE sz

\* the store after Alloc(Len(data)) and the write of data into the allocation
allocWrite(bytes, data) ==
    bytes \o Zeros(allocOffset(Len(bytes), Len(data)) - Len(bytes)) \o data

\* Go's chunks[c] of the mapped file: the bytes past the size read as zero
chunkBytes(bytes, c) ==
    [i \in 1..mmapChunk |->
        IF c * mmapChunk + i <= Len(bytes) THEN bytes[c * mmapChunk + i] ELSE 0]

nChunks(bytes) == (Len(bytes) + mmapChunk - 1) \div mmapChunk

\* Stor.Data(offset): to the end of the chunk
Data(bytes, offset) ==
    LET c == chunkBytes(bytes, offset \div mmapChunk)
    IN  SubSeq(c, (offset % mmapChunk) + 1, mmapChunk)

occursAt(buf, b, i) == i + Len(b) <= Len(buf) /\ SubSeq(buf, i + 1, i + Len(b)) = b

Occurrences(buf, b) == {i \in 0..Len(buf) : occursAt(buf, b, i)}

Max(S) == CHOOSE x \in S : \A y \in S : y <= x

Min(S) == CHOOSE x \in S : \A y \in S : x <= y

\* bytes.Index
Index(buf, b) == IF Occurrences(buf, b) = {} THEN -1 ELSE Min(Occurrences(buf, b))

\* bytes.LastIndex
LastIndex(buf, b) == IF Occurrences(buf, b) = {} THEN -1 ELSE Max(Occurrences(buf, b))

RECURSIVE lastOffsetFrom(_, _, _, _)
lastOffsetFrom(bytes, c, n, b) ==
    IF c < 0 THEN 0
    ELSE LET buf == SubSeq(chunkBytes(bytes, c), 1, n)
             i == LastIndex(buf, b)
         IN  IF i # -1 THEN c * mmapChunk + i
             ELSE lastOffsetFrom(bytes, c - 1, mmapChunk, b)

\* a search that also looks at the offset it is given: mutated form
lastOffsetAt(bytes, off, b) ==
    IF occursAt(bytes, b, off) THEN off
    ELSE lastOffsetFrom(bytes, off \div mmapChunk, off % mmapChunk, b)

\* Stor.LastOffset: searches backwards from off, in the bytes before off
LastOffset(bytes, off, b) == lastOffsetFrom(bytes, off \div mmapChunk, off % mmapChunk, b)

noState == [ok |-> FALSE, offsets |-> <<>>, t |-> 0]

decodeOffsets(bs) ==
    [j \in 1..Noffsets |->
        ReadSmallOffset(SubSeq(bs, (j - 1) * SmallOffsetLen + 1, j * SmallOffsetLen))]

magic2Skipped(buf) == TRUE

magic2Checked(buf) == SubSeq(buf, magic2at + 1, magic2at + Len(magic2)) = magic2

\* readState: ok is false where the code panics
readState(bytes, off) ==
    LET data == Data(bytes, off)
        buf == SubSeq(data, 1, stateLen)
        i == Len(magic1)
    IN  IF /\ off \div mmapChunk < nChunks(bytes)
           /\ stateLen <= Len(data)
           /\ SubSeq(buf, 1, i) = magic1
           /\ cksumCheck(SubSeq(buf, 1, magic2at))
           /\ magic2Checked(buf)
        THEN [ok |-> TRUE,
              offsets |-> decodeOffsets(SubSeq(buf, i + dateSize + 1,
                                               i + dateSize + Noffsets * SmallOffsetLen)),
              t |-> Uint(SubSeq(buf, i + 1, i + dateSize))]
        ELSE noState

hdrLen == Len(magic) + SmallOffsetLen

\* a name of the directory with no file
NoFile == <<-1>>

FileNames == {"db", "bak", "tmp"}

\* the meta offsets the states written hold
TestOffsets == {1, 258}

\* the times of the successive state roots (time.Now().Unix())
TimeVals == <<1, 256>>

\* the records allocated between the state roots; one holds the bytes of magic1
DataRecords == {magic1 \o <<0>>, <<0, 0, 0>>}

repIdle == [pc |-> "idle", off |-> 0, state |-> noState, table |-> 0, tried |-> <<>>,
            orig |-> <<>>]

RepairInit ==
    /\ fsys \in {[db |-> magic \o WriteSmallOffset(hdrLen), bak |-> b, tmp |-> NoFile] :
                    b \in {NoFile, magic \o WriteSmallOffset(hdrLen)}}
    /\ bld = [roots |-> <<>>, ndata |-> 0, damaged |-> <<>>]
    /\ badTables \in {{}, {258}}
    /\ rep \in {[repIdle EXCEPT !.table = tb] : tb \in 0..1}

RepairIdle ==
    /\ fsys = [db |-> magic \o WriteSmallOffset(hdrLen), bak |-> NoFile, tmp |-> NoFile]
    /\ bld = [roots |-> <<>>, ndata |-> 0, damaged |-> <<>>]
    /\ badTables = {}
    /\ rep = repIdle

\* DbState.Write: the meta offsets, then writeState with the clock's time
writeState(offsets) ==
    /\ rep.pc = "idle"
    /\ Len(bld.roots) < MaxRoots
    /\ LET t == TimeVals[Len(bld.roots) + 1]
           stateOff == allocOffset(Len(fsys.db), stateLen)
       IN  /\ fsys' = [fsys EXCEPT !.db = allocWrite(@, stateBytes(offsets, t))]
           /\ bld' = [bld EXCEPT !.roots =
                         Append(@, [off |-> stateOff, offsets |-> offsets, t |-> t])]
    /\ UNCHANGED <<badTables, rep>>
    /\ UNCHANGED notRepair

\* a record is allocated and written
AllocData(d) ==
    /\ rep.pc = "idle"
    /\ bld.ndata < MaxData
    /\ fsys' = [fsys EXCEPT !.db = allocWrite(@, d)]
    /\ bld' = [bld EXCEPT !.ndata = @ + 1]
    /\ UNCHANGED <<badTables, rep>>
    /\ UNCHANGED notRepair

\* the fields of a state root: 0 magic1, 1 the time, 2..Noffsets+1 the meta offsets,
\* then the checksum, then magic2
Fields == 0..(Noffsets + 3)

fieldLen(f) ==
    IF f = 0 THEN Len(magic1)
    ELSE IF f = 1 THEN dateSize
    ELSE IF f <= Noffsets + 1 THEN SmallOffsetLen
    ELSE IF f = Noffsets + 2 THEN cksumLen
    ELSE Len(magic2)

RECURSIVE fieldStart(_)
fieldStart(f) == IF f = 0 THEN 0 ELSE fieldStart(f - 1) + fieldLen(f - 1)

\* what an altered field may hold
Alterations(f) ==
    IF f = 1 THEN {PutUint(t, dateSize) : t \in {TimeVals[i] : i \in 1..Len(TimeVals)}}
    ELSE IF f >= 2 /\ f <= Noffsets + 1 THEN {WriteSmallOffset(o) : o \in TestOffsets}
    ELSE IF f = Noffsets + 2 THEN {PutUint(v, cksumLen) : v \in {0, 2, 3}}
    ELSE {Zeros(fieldLen(f))}

replaceAt(bytes, at, new) ==
    [i \in 1..Len(bytes) |->
        IF i > at /\ i <= at + Len(new) THEN new[i - at] ELSE bytes[i]]

\* the file is damaged: one field of one state root is altered
Damage(k, f, new) ==
    /\ rep.pc = "idle"
    /\ Len(bld.damaged) < MaxDamage
    /\ k \in 1..Len(bld.roots)
    /\ LET at == bld.roots[k].off + fieldStart(f)
       IN  /\ SubSeq(fsys.db, at + 1, at + Len(new)) # new
           /\ fsys' = [fsys EXCEPT !.db = replaceAt(@, at, new)]
    /\ bld' = [bld EXCEPT !.damaged = Append(@, [root |-> k, field |-> f])]
    /\ UNCHANGED <<badTables, rep>>
    /\ UNCHANGED notRepair

\* dbcheck.checkTable on the table whose meta offset is offsets[j]
checkTable(st, j) == st.offsets[j] \notin badTables

\* checkState: 0 for nil, else the table the check failed on; the table of the
\* previous failure is checked first
checkState(st, table) ==
    LET bad == {j \in 1..Noffsets : ~checkTable(st, j)}
    IN  IF table # 0 /\ table \in bad THEN table
        ELSE IF bad = {} THEN 0
        ELSE Min(bad)

\* Repair up to its loop: MmapStor and store.Size()
RepairOpen ==
    /\ rep.pc = "idle"
    /\ rep' = [rep EXCEPT !.pc = "scan", !.off = Len(fsys.db), !.orig = fsys.db]
    /\ UNCHANGED <<fsys, bld, badTables>>
    /\ UNCHANGED notRepair

\* one iteration of Repair's loop, prevState and then checkState: Repair's locals
\* after it
loopIteration(bytes, r) ==
    LET off2 == LastOffset(bytes, r.off, magic1)
        st == readState(bytes, off2)
        ec == checkState(st, r.table)
    IN  IF off2 = 0
        THEN [r EXCEPT !.pc = "failed", !.off = 0]
        ELSE IF ~st.ok
        THEN [r EXCEPT !.off = off2, !.state = noState,
                       !.tried = Append(@, [off |-> off2, state |-> FALSE])]
        ELSE [r EXCEPT !.off = off2, !.state = st,
                       !.tried = Append(@, [off |-> off2, state |-> TRUE]),
                       !.table = IF ec = 0 THEN @ ELSE ec,
                       !.pc = IF ec = 0 THEN "copy" ELSE "scan"]

\* one iteration of Repair's loop
RepairLoop ==
    /\ rep.pc = "scan"
    /\ rep' = loopIteration(fsys.db, rep)
    /\ UNCHANGED <<fsys, bld, badTables>>
    /\ UNCHANGED notRepair

src == "db"

dst == "tmp"

\* store.Close, os.Open, ioutil.TempFile and io.CopyN
RepairCopy ==
    /\ rep.pc = "copy"
    /\ IF Len(fsys[src]) < rep.off + stateLen
       THEN /\ rep' = [rep EXCEPT !.pc = "error"]
            /\ fsys' = [fsys EXCEPT ![dst] = fsys[src]]
       ELSE /\ rep' = [rep EXCEPT !.pc = "header"]
            /\ fsys' = [fsys EXCEPT ![dst] = SubSeq(fsys[src], 1, rep.off + stateLen)]
    /\ UNCHANGED <<bld, badTables>>
    /\ UNCHANGED notRepair

\* the size slot of the file being repaired
slotOfOriginal == src

\* the file whose size slot is rewritten
sizeSlotFile == dst

\* dst.WriteAt(buf, len(magic)), then both files are closed
RepairHeader ==
    /\ rep.pc = "header"
    /\ rep' = [rep EXCEPT !.pc = "remove"]
    /\ fsys' = [fsys EXCEPT ![sizeSlotFile] =
                   replaceAt(@, Len(magic), WriteSmallOffset(rep.off + stateLen))]
    /\ UNCHANGED <<bld, badTables>>
    /\ UNCHANGED notRepair

\* os.Remove(dbfile + ".bak"); a missing file is not an error
RepairRemove ==
    /\ rep.pc = "remove"
    /\ rep' = [rep EXCEPT !.pc = "rename1"]
    /\ fsys' = [fsys EXCEPT !.bak = NoFile]
    /\ UNCHANGED <<bld, badTables>>
    /\ UNCHANGED notRepair

\* os.Rename(dbfile, dbfile+".bak")
RepairRenameBak ==
    /\ rep.pc = "rename1"
    /\ rep' = [rep EXCEPT !.pc = "rename2"]
    /\ fsys' = [fsys EXCEPT !.bak = fsys.db, !.db = NoFile]
    /\ UNCHANGED <<bld, badTables>>
    /\ UNCHANGED notRepair

\* os.Rename(tmpfile, dbfile)
RepairRenameTmp ==
    /\ rep.pc = "rename2"
    /\ rep' = [rep EXCEPT !.pc = "done"]
    /\ fsys' = [fsys EXCEPT !.db = fsys.tmp, !.tmp = NoFile]
    /\ UNCHANGED <<bld, badTables>>
    /\ UNCHANGED notRepair

\* a file operation of Repair fails and Repair returns the error
RepairError ==
    /\ rep.pc \in {"copy", "header", "remove", "rename1", "rename2"}
    /\ rep' = [rep EXCEPT !.pc = "error"]
    /\ UNCHANGED <<fsys, bld, badTables>>
    /\ UNCHANGED notRepair

RepairNext ==
    \/ \E offsets \in [1..Noffsets -> TestOffsets] : writeState(offsets)
    \/ \E d \in DataRecords : AllocData(d)
    \/ \E k \in 1..MaxRoots, f \in Fields : \E new \in Alterations(f) : Damage(k, f, new)
    \/ RepairOpen
    \/ RepairLoop
    \/ RepairCopy
    \/ RepairHeader
    \/ RepairRemove
    \/ RepairRenameBak
    \/ RepairRenameTmp
    \/ RepairError

-----------------------------------------------------------------------------
(* btree.Merge (src/database/btree/merge.go); fbtree and mbtree as the spec gives them *)

MergeKeys == 1..MaxMergeKey

\* an fbtree of two leaves: the leaf a key belongs to
leafOf(key) == IF key = 1 THEN 1 ELSE 2

\* an offset as an mbtree holds it: the address of the record and the delete marker
Off(addr, del) == [addr |-> addr, del |-> del]

PageIds == 1..4

\* fbtree.Iter: the entries of the tree, in key order (as a set of key, offset pairs)
fbIter(pgs, fb) == UNION {pgs[fb.leaves[i]] : i \in 1..Len(fb.leaves)}

\* mbtree.ForEach: the entries in key order
RECURSIVE mbEntries(_, _)
mbEntries(mb, k) ==
    IF k > MaxMergeKey THEN <<>>
    ELSE (IF \E e \in mb : e.key = k
          THEN <<CHOOSE e \in mb : e.key = k>> ELSE <<>>) \o mbEntries(mb, k + 1)

ForEach(mb) == mbEntries(mb, 1)

mgIdle == [pc |-> "idle", up |-> <<>>, fresh |-> {}, todo |-> <<>>, fbBefore |-> {},
           mbBefore |-> {}, result |-> <<>>]

MergeInit ==
    /\ \E present \in SUBSET MergeKeys :
          pages = [p \in PageIds |->
                     IF p > 2 THEN {}
                     ELSE {[key |-> k, off |-> Off(k, FALSE)] :
                              k \in {x \in present : leafOf(x) = p}}]
    /\ fbt = [leaves |-> <<1, 2>>]
    /\ mbt = {}
    /\ mg = mgIdle

MergeIdle ==
    /\ pages = [p \in PageIds |-> {}]
    /\ fbt = [leaves |-> <<1, 2>>]
    /\ mbt = {}
    /\ mg = mgIdle

\* what a reader of the overlay of fbt and mbt sees of a key: its offset, or none
visible(key) ==
    IF \E e \in mbt : e.key = key
    THEN {e.off : e \in {x \in mbt : x.key = key /\ ~x.off.del}}
    ELSE {e.off : e \in {x \in fbIter(pages, fbt) : x.key = key}}

\* mbtree.insert(key, offset) by the owning transaction: the key must not be visible
mbInsert(key, addr) ==
    /\ mg.pc = "idle"
    /\ visible(key) = {}
    /\ mbt' = {e \in mbt : e.key # key} \cup {[key |-> key, off |-> Off(addr, FALSE)]}
    /\ UNCHANGED <<pages, fbt, mg>>
    /\ UNCHANGED notMerge

\* mbtree.delete(key, offset) by the owning transaction: the key must be visible
mbDelete(key) ==
    /\ mg.pc = "idle"
    /\ visible(key) # {}
    /\ LET off == CHOOSE o \in visible(key) : TRUE
       IN  mbt' = {e \in mbt : e.key # key} \cup {[key |-> key, off |-> Off(off.addr, TRUE)]}
    /\ UNCHANGED <<pages, fbt, mg>>
    /\ UNCHANGED notMerge

\* Merge is called: fb.Update hands fn an fbupdate on the leaves of fb
MergeCall ==
    /\ mg.pc = "idle"
    /\ mg' = [mg EXCEPT !.pc = "each", !.up = fbt.leaves, !.fresh = {},
                        !.todo = ForEach(mbt),
                        !.fbBefore = fbIter(pages, fbt), !.mbBefore = mbt]
    /\ UNCHANGED <<pages, fbt, mbt>>
    /\ UNCHANGED notMerge

\* fbupdate: a leaf of the original tree is copied to a new page before it is written
redirect(leaves, fresh, i) ==
    IF leaves[i] \in fresh THEN leaves[i]
    ELSE CHOOSE p \in PageIds :
            /\ p \notin {leaves[j] : j \in 1..Len(leaves)}
            /\ p \notin {fbt.leaves[j] : j \in 1..Len(fbt.leaves)}

\* the insert goes to the leaf of fb itself: mutated form
insertIntoFb(leaves, fresh, i) == leaves[i]

\* the page up.Insert writes: Merge inserts into the fbupdate, not into fb
insertIntoUp(leaves, fresh, i) == redirect(leaves, fresh, i)

\* up.Insert(key, off) for one entry of mb.ForEach
MergeInsert ==
    /\ mg.pc = "each"
    /\ mg.todo # <<>>
    /\ LET e == Head(mg.todo)
           i == leafOf(e.key)
           p == insertIntoUp(mg.up, mg.fresh, i)
       IN  /\ pages' = [pages EXCEPT ![p] =
                           {x \in pages[mg.up[i]] : x.key # e.key} \cup {e}]
           /\ mg' = [mg EXCEPT !.up[i] = p, !.fresh = @ \cup {p}, !.todo = Tail(@)]
    /\ UNCHANGED <<fbt, mbt>>
    /\ UNCHANGED notMerge

\* fb.Update returns the new fbtree
MergeReturn ==
    /\ mg.pc = "each"
    /\ mg.todo = <<>>
    /\ mg' = [mg EXCEPT !.pc = "done", !.result = [leaves |-> mg.up]]
    /\ UNCHANGED <<pages, fbt, mbt>>
    /\ UNCHANGED notMerge

MergeNext ==
    \/ \E key \in MergeKeys : mbInsert(key, key + MaxMergeKey)
    \/ \E key \in MergeKeys : mbDelete(key)
    \/ MergeCall
    \/ MergeInsert
    \/ MergeReturn

-----------------------------------------------------------------------------
(* query.Summarize: planning and execution (src/dbms/query/summarize.go) *)

sumStrategies == {"sumSeq", "sumMap", "sumIdx", "sumTbl"}

\* the numbers in the summarized column of the rows of the source
SumVals == 1..MaxSumVal

\* a value of the summarized column that OpAdd panics on (a string that is no number)
NotNumbers == {-1}

\* the values of the by column
ByVals == 1..MaxBy

\* the modes a query is optimized for
Modes == {"ReadMode", "UpdateMode", "CursorMode"}

\* the summarize queries planned: the source is a Table or not, the by columns, the ops
SumQueries ==
    [table : BOOLEAN, by : {<<>>, <<"b">>},
     ops : {<<"count">>, <<"min">>, <<"max">>, <<"count", "max">>,
            <<"total">>, <<"average">>}]

minmax1(q) == Len(q.by) = 0 /\ Len(q.ops) = 1 /\ (q.ops[1] = "min" \/ q.ops[1] = "max")

\* mapCost: impossible if index != nil || nrows > mapLimit-mapLimit/3 (fits is the
\* second test passing); the mode only goes to the Optimize of the source
mapCost(mode, index, fits) == index = <<>> /\ fits

\* optimize: the strategies it can return for a query; which of seq, idx and map is the
\* cheapest is decided by costs of the source
optimize(q, mode, index, fits) ==
    IF q.table /\ Len(q.by) = 0 /\ Len(q.ops) = 1 /\ q.ops[1] = "count"
    THEN {"sumTbl"}
    ELSE {"sumSeq"} \cup (IF minmax1(q) THEN {"sumIdx"} ELSE {})
                    \cup (IF mapCost(mode, index, fits) THEN {"sumMap"} ELSE {})

\* the log of the Gets since the last Rewind or Select, and whether that was a Select
\* that found the operator moved from its rewound state
slogAfter(moved) == [dirs |-> <<>>, results |-> <<>>, reads |-> <<>>, moved |-> moved]

slogEmpty == slogAfter(FALSE)

\* sumSeqT before its first Get
seqT0 == [curDir |-> "Next", curRow |-> Nil, nextRow |-> Nil]

\* the rows a source can hold for a query: <<by value, summarized value>>, the by
\* value constant when the query has no by columns; values that cannot be added are
\* given to total and average only
SourceRows(q) ==
    (IF q.by = <<>> THEN {0} ELSE ByVals)
        \X (SumVals \cup (IF q.ops[1] \in {"total", "average"} THEN NotNumbers ELSE {}))

\* NewSummarize, and the mode its optimize is going to be called with; the source is
\* ordered by the by columns
SumInit ==
    /\ \E q \in SumQueries, mode \in Modes :
          /\ su = [q |-> q, mode |-> mode, strategy |-> "unplanned", rewound |-> TRUE,
                   sel |-> 0, t |-> seqT0]
          /\ \E S \in SUBSET SourceRows(q) :
                /\ Cardinality(S) <= MaxRows
                /\ srows = SortedRows(S)
    /\ sit = itRewound
    /\ slog = slogEmpty

SumIdle ==
    /\ su = [q |-> [table |-> TRUE, by |-> <<>>, ops |-> <<"count">>],
             mode |-> "done", strategy |-> "sumTbl", rewound |-> TRUE, sel |-> 0,
             t |-> seqT0]
    /\ srows = <<>>
    /\ sit = itRewound
    /\ slog = slogEmpty

\* optimize with the mode, then setApproach with the approach it returned; the mode
\* is an argument of optimize and is not kept
SumSetApproach ==
    /\ su.strategy = "unplanned"
    /\ \E index \in {<<>>, <<"b">>}, fits \in BOOLEAN :
          \E s \in optimize(su.q, su.mode, index, fits) :
              su' = [su EXCEPT !.strategy = s, !.mode = "done", !.rewound = TRUE]
    /\ UNCHANGED <<srows, sit, slog>>
    /\ UNCHANGED notSum

\* the column a Select of the summarize restricts in the source: the by column, or
\* the summarized column when there is none
selCol(q) == IF q.by = <<>> THEN 2 ELSE 1

\* the rows the source yields under the Select in force
sourceSelected(rows, sel) ==
    SelectSeq(rows, LAMBDA r : sel = 0 \/ r[selCol(su.q)] = sel)

\* the test of getTbl left out: mutated form
alwaysFirst(rewound) == FALSE

\* if !su.rewound { return nil }
notRewound(rewound) == ~rewound

\* getTbl: one row with tbl.Nrows()
getTbl(dir) ==
    IF notRewound(su.rewound) THEN [row |-> Nil, it |-> sit, read |-> <<>>, t |-> su.t]
    ELSE [row |-> <<Len(srows)>>, it |-> sit, read |-> <<>>, t |-> su.t]

\* the direction the caller passes: mutated form
callerDir(op, dir) == dir

\* dir := Prev; if str.EqualCI(su.ops[0], "min") { dir = Next }
idxDir(op, dir) == IF op \in {"min", "MIN", "Min"} THEN "Next" ELSE "Prev"

\* getIdx: one row of the source, read in the direction of the op
getIdx(dir) ==
    IF ~su.rewound THEN [row |-> Nil, it |-> sit, read |-> <<>>, t |-> su.t]
    ELSE LET d == idxDir(su.q.ops[1], dir)
             g == SourceGet(sourceSelected(srows, su.sel), sit, d)
         IN  [row |-> IF g.row = Nil THEN Nil ELSE <<g.row[2]>>,
              it |-> g.it, read |-> <<d>>, t |-> su.t]

\* OpAdd panics unless both values are numbers
addable(val) == val \notin NotNumbers

\* an add that takes every value for a number: mutated form
addUnprotected(total, val) == total + val

\* sum.total = OpAdd(sum.total, val) under defer func() { recover() }()
addRecover(total, val) == IF addable(val) THEN total + val ELSE total

\* OpDiv(total, count), kept as the fraction
OpDiv(total, count) == [num |-> total, den |-> count]

\* newSumOp, and sumOp.reset
newSumOp(op) ==
    CASE op = "count" -> [count |-> 0]
      [] op = "total" -> [total |-> 0]
      [] op = "average" -> [count |-> 0, total |-> 0]
      [] OTHER -> [has |-> FALSE, raw |-> 0]

\* sumOp.add
sumAdd(op, s, val) ==
    CASE op = "count" -> [count |-> s.count + 1]
      [] op = "total" -> [total |-> addRecover(s.total, val)]
      [] op = "average" -> [count |-> s.count + 1, total |-> addRecover(s.total, val)]
      [] op = "min" -> IF ~s.has \/ val < s.raw THEN [has |-> TRUE, raw |-> val] ELSE s
      [] OTHER -> IF ~s.has \/ val > s.raw THEN [has |-> TRUE, raw |-> val] ELSE s

\* sumOp.result
sumResult(op, s) ==
    CASE op = "count" -> s.count
      [] op = "total" -> s.total
      [] op = "average" -> OpDiv(s.total, s.count)
      [] OTHER -> s.raw

newSums(q) == [i \in 1..Len(q.ops) |-> newSumOp(q.ops[i])]

\* addToSums: every op is given the value of its column in the row
addToSums(q, sums, row) == [i \in 1..Len(q.ops) |-> sumAdd(q.ops[i], sums[i], row[2])]

\* every row is of the same group: mutated form
oneGroup(q, row1, row2) == TRUE

\* sameBy: the rows agree on every by column
sameBy(q, row1, row2) == \A i \in 1..Len(q.by) : row1[1] = row2[1]

\* seqRow: the by values of curRow, then the results of the sums
seqRow(q, curRow, sums) ==
    (IF q.by = <<>> THEN <<>> ELSE <<curRow[1]>>)
        \o [i \in 1..Len(q.ops) |-> sumResult(q.ops[i], sums[i])]

\* the loop that skips the previous result after a change of direction
RECURSIVE skipSame(_, _, _, _)
skipSame(rows, it, dir, curRow) ==
    LET g == SourceGet(rows, it, dir)
    IN  IF g.row = Nil \/ ~sameBy(su.q, curRow, g.row) THEN g
        ELSE skipSame(rows, g.it, dir, curRow)

\* the loop that adds the rows of one group to the sums
RECURSIVE addRows(_, _, _, _, _, _)
addRows(rows, it, dir, curRow, nextRow, sums) ==
    LET s == addToSums(su.q, sums, nextRow)
        g == SourceGet(rows, it, dir)
    IN  IF g.row = Nil \/ ~sameBy(su.q, curRow, g.row)
        THEN [sums |-> s, it |-> g.it, nextRow |-> g.row]
        ELSE addRows(rows, g.it, dir, curRow, g.row, s)

\* getSeq
getSeq(dir) ==
    LET rows == sourceSelected(srows, su.sel)
        g0 == SourceGet(rows, sit, dir)
        \* if su.rewound
        t1 == IF su.rewound THEN [curDir |-> dir, curRow |-> Nil, nextRow |-> g0.row]
              ELSE su.t
        si1 == IF su.rewound THEN g0.it ELSE sit
        \* if dir != t.curDir
        si2 == IF t1.nextRow = Nil THEN itRewound ELSE si1
        g2 == skipSame(rows, si2, dir, t1.curRow)
        t3 == IF dir # t1.curDir THEN [t1 EXCEPT !.nextRow = g2.row, !.curDir = dir]
              ELSE t1
        si3 == IF dir # t1.curDir THEN g2.it ELSE si1
        a == addRows(rows, si3, dir, t3.nextRow, t3.nextRow, newSums(su.q))
    IN  IF t3.nextRow = Nil THEN [row |-> Nil, it |-> si3, read |-> <<>>, t |-> t3]
        ELSE [row |-> seqRow(su.q, t3.nextRow, a.sums), it |-> a.it, read |-> <<>>,
              t |-> [t3 EXCEPT !.curRow = t3.nextRow, !.nextRow = a.nextRow]]

\* Summarize.Get: su.get, then rewound = false
SumGet(dir) ==
    /\ su.strategy \in {"sumTbl", "sumIdx", "sumSeq"}
    /\ Len(slog.dirs) < MaxGets
    /\ LET g == CASE su.strategy = "sumTbl" -> getTbl(dir)
                  [] su.strategy = "sumIdx" -> getIdx(dir)
                  [] OTHER -> getSeq(dir)
       IN  /\ sit' = g.it
           /\ slog' = [slog EXCEPT !.dirs = Append(slog.dirs, dir),
                                   !.results = Append(slog.results, g.row),
                                   !.reads = slog.reads \o g.read]
           /\ su' = [su EXCEPT !.rewound = FALSE, !.t = g.t]
    /\ UNCHANGED srows
    /\ UNCHANGED notSum

\* Summarize.Rewind: su.source.Rewind(), rewound = true
SumRewind ==
    /\ su.strategy # "unplanned"
    /\ sit' = itRewound
    /\ su' = [su EXCEPT !.rewound = TRUE]
    /\ slog' = slogEmpty
    /\ UNCHANGED srows
    /\ UNCHANGED notSum

\* Summarize.Select: su.source.Select(cols, vals), which rewinds the source, and
\* rewound = true
SumSelect(v) ==
    /\ su.strategy # "unplanned"
    /\ su.sel # v
    /\ sit' = itRewound
    /\ su' = [su EXCEPT !.rewound = TRUE, !.sel = v]
    /\ slog' = slogAfter(~su.rewound)
    /\ UNCHANGED srows
    /\ UNCHANGED notSum

SumNext ==
    \/ SumSetApproach
    \/ \E dir \in {"Next", "Prev"} : SumGet(dir)
    \/ SumRewind
    \/ \E v \in 0..MaxSel : SumSelect(v)

-----------------------------------------------------------------------------
(* Query.Transform of Summarize and Union (src/dbms/query/summarize.go,              *)
(* src/unnamed/part_002)                                                              *)

\* the nodes of a query tree: the operator, unique for a Project, its Columns(), its
\* sources
Node(op, unique, cols, kids) == [op |-> op, unique |-> unique, cols |-> cols, kids |-> kids]

TableQ == Node("Table", FALSE, {"a", "b"}, <<>>)

NewNothing(cols) == Node("Nothing", FALSE, cols, <<>>)

\* a project on the column a; unique when the columns hold a key (project-copy)
NewProject(source, unique) == Node("Project", unique, {"a"}, <<source>>)

\* a summarize by a with one aggregate n
NewSummarizeQ(source) == Node("Summarize", FALSE, {"a", "n"}, <<source>>)

NewUnion(src1, src2) == Node("Union", FALSE, src1.cols \cup src2.cols, <<src1, src2>>)

NewExtend(source, cols) == Node("Extend", FALSE, source.cols \cup cols, <<source>>)

QLeaves == {TableQ, NewNothing({"a", "b"}), NewNothing({"a", "c"})}

\* the query trees of at most the given depth, a Union counting for two levels
RECURSIVE QTrees(_)
QTrees(d) ==
    IF d = 0 THEN QLeaves
    ELSE QLeaves
         \cup {NewProject(s, u) : s \in QTrees(d - 1), u \in BOOLEAN}
         \cup {NewSummarizeQ(s) : s \in QTrees(d - 1)}
         \cup (IF d < 2 THEN {}
               ELSE {NewUnion(s[1], s[2]) : s \in QTrees(d - 2) \X QTrees(d - 2)})

isNothing(q) == q.op = "Nothing"

\* Extend.Transform on a source that is transformed: folds a Nothing source and
\* combines with an Extend source
transformExtend(source, cols) ==
    IF isNothing(source) THEN NewNothing(source.cols \cup cols)
    ELSE IF source.op = "Extend" THEN NewExtend(source.kids[1], source.cols \cup cols)
    ELSE NewExtend(source, cols)

\* keepCols
keepCols(source, nothing) ==
    LET cols == nothing.cols \ source.cols
    IN  IF cols = {} THEN source ELSE transformExtend(source, cols)

\* if p, ok := su.source.(*Project); ok && p.unique { su = NewSummarize(p.source, ...) }
removeProjectCopy(source) ==
    IF source.op = "Project" /\ source.unique THEN source.kids[1] ELSE source

RECURSIVE Transform(_)
Transform(q) ==
    CASE q.op = "Summarize" ->
            LET source == Transform(removeProjectCopy(q.kids[1]))
            IN  IF isNothing(source) THEN NewNothing(q.cols) ELSE NewSummarizeQ(source)
      [] q.op = "Union" ->
            LET src1 == Transform(q.kids[1])
                src2 == Transform(q.kids[2])
            IN  IF isNothing(src1) THEN keepCols(src2, src1)
                ELSE IF isNothing(src2) THEN keepCols(src1, src2)
                ELSE NewUnion(src1, src2)
      [] q.op = "Project" ->
            LET source == Transform(q.kids[1])
            IN  IF isNothing(source) THEN NewNothing(q.cols)
                ELSE NewProject(source, q.unique)
      [] q.op = "Extend" -> transformExtend(Transform(q.kids[1]), q.cols)
      [] OTHER -> q

XformInit == \E q \in QTrees(MaxDepth) : qt = [q |-> q, out |-> <<>>]

XformIdle == qt = [q |-> TableQ, out |-> <<>>]

\* Transform applied to the query, then to its own result
XformApply ==
    /\ Len(qt.out) < 2
    /\ qt' = [qt EXCEPT !.out =
                 Append(@, Transform(IF @ = <<>> THEN qt.q ELSE @[Len(@)]))]
    /\ UNCHANGED notXform

XformNext == XformApply

-----------------------------------------------------------------------------
(* query.TempIndex: Select, Lookup and Get (src/dbms/query/tempindex.go)             *)

\* the raw values of the columns a and b of a row; ixkey.Min is the empty string, which
\* a column can hold, and ixkey.Max is above every value
TiVals == ixkeyMin..MaxTiVal

ixkeyMax == MaxTiVal + 1

selMin == <<ixkeyMin>>

selMax == <<ixkeyMax>>

\* source.Fixed(): the column f has one value in every row
sourceFixed == [col |-> "f", val |-> MaxTiVal]

\* the orders a TempIndex is made for (withoutFixed has removed f)
TiOrders == {<<"a">>, <<"a", "b">>}

\* row.GetRawVal: a row is <<a, b>>
rawVal(row, col) ==
    IF col = "a" THEN row[1] ELSE IF col = "b" THEN row[2] ELSE sourceFixed.val

\* slices.Index, counting from 1, 0 for -1
colIndex(cols, col) ==
    IF \E j \in 1..Len(cols) : cols[j] = col
    THEN Min({j \in 1..Len(cols) : cols[j] = col})
    ELSE 0

\* the arguments of Lookup: values for a prefix of the order
LookArgs(order) ==
    UNION {{[cols |-> SubSeq(order, 1, k), vals |-> vs] : vs \in [1..k -> TiVals]} :
           k \in 0..Len(order)}

\* the arguments of Select: those, and a value for the fixed column alone or with a
\* value for the first order column
SelArgs(order) ==
    LookArgs(order)
        \cup {[cols |-> a.cols \o <<sourceFixed.col>>, vals |-> a.vals \o <<v>>] :
                 a \in {x \in LookArgs(order) : Len(x.cols) <= 1}, v \in {0, MaxTiVal}}

nilArgs == [cols |-> <<>>, vals |-> <<>>]

\* selectFixed: satisfied if every column is fixed to the value asked for, conflict
\* if some column is fixed to another value
selectFixed(cols, vals) ==
    [satisfied |-> \A j \in 1..Len(cols) :
                       cols[j] = sourceFixed.col /\ vals[j] = sourceFixed.val,
     conflict |-> \E j \in 1..Len(cols) :
                       cols[j] = sourceFixed.col /\ vals[j] # sourceFixed.val]

\* makeKey: the values of the leading order columns that cols has; panic if full is
\* asked for and some order column is not in cols
RECURSIVE makeKey(_, _, _, _)
makeKey(order, cols, vals, full) ==
    IF order = <<>> THEN [key |-> <<>>, panic |-> FALSE]
    ELSE LET j == colIndex(cols, Head(order))
         IN  IF j = 0 THEN [key |-> <<>>, panic |-> full]
             ELSE LET more == makeKey(Tail(order), cols, vals, full)
                  IN  [key |-> <<vals[j]>> \o more.key, panic |-> more.panic]

\* a test that takes every row: mutated form
matchesAny(order, row, key) == TRUE

\* matches
matches(order, row, key) == \A i \in 1..Len(order) : rawVal(row, order[i]) = key[i]

\* less2: the row is before the key; the columns past the key and the elements of
\* the key past the order are not looked at
RECURSIVE less2(_, _, _, _)
less2(order, row, key, i) ==
    IF i > Len(order) \/ i > Len(key) THEN FALSE
    ELSE IF rawVal(row, order[i]) # key[i] THEN rawVal(row, order[i]) < key[i]
    ELSE less2(order, row, key, i + 1)

\* makeIndex: the rows of the source sorted by less
tiIndex == SortedRows({tiRows[i] : i \in 1..Len(tiRows)})

\* rowIter.Seek: the first row that is not before the key, nil and eof if none
Seek(key) ==
    LET at == {i \in 1..Len(tiIndex) : ~less2(ti.order, tiIndex[i], key, 1)}
    IN  IF at = {} THEN [it |-> [pos |-> 0, st |-> "eof"], row |-> Nil]
        ELSE [it |-> [pos |-> Min(at), st |-> "within"], row |-> tiIndex[Min(at)]]

tiSatisfied(t) == t.selOrg = selMin /\ t.selEnd = selMax

tiConflict(t) == t.selOrg = selMax /\ t.selEnd = selMin

\* selected
selected(t, row) ==
    tiSatisfied(t) \/ \A i \in 1..Len(t.selOrg) : rawVal(row, t.order[i]) = t.selOrg[i]

noLookup == [done |-> FALSE, cols |-> <<>>, vals |-> <<>>, row |-> Nil, panic |-> FALSE]

\* the log of the Gets since the last Rewind, Select or Lookup, valid while they started
\* from the rewound state, or else the last operation, a Lookup
tiLogEmpty == [dirs |-> <<>>, results |-> <<>>, valid |-> TRUE, look |-> noLookup]

\* NewTempIndex
TiInit ==
    /\ \E order \in TiOrders :
          ti = [order |-> order, built |-> FALSE, rewound |-> FALSE,
                selOrg |-> selMin, selEnd |-> selMax, sel |-> nilArgs]
    /\ \E S \in SUBSET (TiVals \X TiVals) :
          /\ Cardinality(S) <= MaxTiRows
          /\ tiRows = SortedRows(S)
    /\ tiIter = itRewound
    /\ tiLog = tiLogEmpty

TiIdle ==
    /\ ti = [order |-> <<"a">>, built |-> FALSE, rewound |-> FALSE,
             selOrg |-> selMin, selEnd |-> selMax, sel |-> nilArgs]
    /\ tiRows = <<>>
    /\ tiIter = itRewound
    /\ tiLog = tiLogEmpty

\* TempIndex.Rewind
TiRewind ==
    /\ tiIter' = IF ti.built THEN itRewound ELSE tiIter
    /\ ti' = [ti EXCEPT !.rewound = TRUE]
    /\ tiLog' = tiLogEmpty
    /\ UNCHANGED tiRows
    /\ UNCHANGED notTi

\* TempIndex.Select: Rewind, then the range of the selection
TiSelect(args) ==
    /\ tiIter' = IF ti.built THEN itRewound ELSE tiIter
    /\ LET sf == selectFixed(args.cols, args.vals)
           org == makeKey(ti.order, args.cols, args.vals, FALSE).key
       IN  ti' = [ti EXCEPT
                     !.rewound = TRUE,
                     !.sel = args,
                     !.selOrg = IF args = nilArgs THEN selMin
                                ELSE IF sf.conflict THEN selMax
                                ELSE IF sf.satisfied THEN selMin
                                ELSE org,
                     !.selEnd = IF args = nilArgs THEN selMax
                                ELSE IF sf.conflict THEN selMin
                                ELSE IF sf.satisfied THEN selMax
                                ELSE Append(org, ixkeyMax)]
    /\ tiLog' = tiLogEmpty
    /\ UNCHANGED tiRows
    /\ UNCHANGED notTi

\* TempIndex.Lookup: makeIndex if there is none yet, makeKey, Seek, matches
TiLookup(args) ==
    /\ LET mk == makeKey(ti.order, args.cols, args.vals, TRUE)
           s == Seek(mk.key)
           found == IF s.row = Nil \/ ~matches(ti.order, s.row, mk.key) THEN Nil ELSE s.row
       IN  /\ tiIter' = IF mk.panic THEN tiIter ELSE s.it
           /\ tiLog' = [tiLogEmpty EXCEPT
                           !.valid = ti.rewound,
                           !.look = [done |-> TRUE, cols |-> args.cols, vals |-> args.vals,
                                     row |-> IF mk.panic THEN Nil ELSE found,
                                     panic |-> mk.panic]]
    /\ ti' = [ti EXCEPT !.built = TRUE]
    /\ UNCHANGED tiRows
    /\ UNCHANGED notTi

\* a Get that seeks the start of the range in both directions: mutated form
seekOrg(t, dir) == t.selOrg

\* the key Get seeks when rewound: selOrg for Next, selEnd for Prev
seekKey(t, dir) == IF dir = "Next" THEN t.selOrg ELSE t.selEnd

\* TempIndex.Get
TiGet(dir) ==
    /\ Len(tiLog.dirs) < MaxTiGets
    /\ LET rewound == ~ti.built \/ ti.rewound
           s == Seek(seekKey(ti, dir))
           g == IF ~rewound THEN SourceGet(tiIndex, tiIter, dir)
                ELSE IF dir = "Next" THEN s
                ELSE SourceGet(tiIndex, IF s.row = Nil THEN itRewound ELSE s.it, dir)
           row == IF g.row = Nil \/ ~selected(ti, g.row) THEN Nil ELSE g.row
       IN  IF tiConflict(ti)
           THEN /\ ti' = [ti EXCEPT !.built = TRUE, !.rewound = rewound]
                /\ tiIter' = tiIter
                /\ tiLog' = [tiLog EXCEPT !.dirs = Append(@, dir),
                                          !.results = Append(@, Nil),
                                          !.look = noLookup]
           ELSE /\ ti' = [ti EXCEPT !.built = TRUE, !.rewound = FALSE]
                /\ tiIter' = g.it
                /\ tiLog' = [tiLog EXCEPT !.dirs = Append(@, dir),
                                          !.results = Append(@, row),
                                          !.look = noLookup]
    /\ UNCHANGED tiRows
    /\ UNCHANGED notTi

TiNext ==
    \/ TiRewind
    \/ \E args \in SelArgs(ti.order) : TiSelect(args)
    \/ \E args \in LookArgs(ti.order) : TiLookup(args)
    \/ \E dir \in {"Next", "Prev"} : TiGet(dir)

-----------------------------------------------------------------------------
(* TempIndex.multi, multiIter.get and getRec (src/dbms/query/tempindex.go)           *)

\* multiMask, for the SmallOffsetLen of the model: the top byte of a small offset
\* (the code: the top two bytes of five)
multiMask == 256 ^ SmallOffsetLen - 256 ^ (SmallOffsetLen - 1)

\* x | y
RECURSIVE BitOr(_, _)
BitOr(x, y) ==
    IF x = 0 THEN y
    ELSE IF y = 0 THEN x
    ELSE (IF x % 2 = 1 \/ y % 2 = 1 THEN 1 ELSE 0) + 2 * BitOr(x \div 2, y \div 2)

\* x &^ y
RECURSIVE BitAndNot(_, _)
BitAndNot(x, y) ==
    IF x = 0 THEN 0
    ELSE (IF x % 2 = 1 /\ y % 2 = 0 THEN 1 ELSE 0) + 2 * BitAndNot(x \div 2, y \div 2)

\* tran.GetRecord: the record the database holds at an offset
GetRecord(off) == <<off % 256, 1>>

\* the records of a source row: database records, and derived records of every
\* length up to MaxDerivedLen
DbRecs == {[Off |-> off, Record |-> GetRecord(off)] : off \in {1, multiMask - 1}}

DerivedRecs == {[Off |-> 0, Record |-> [i \in 1..n |-> 256 - i]] : n \in 0..MaxDerivedLen}

MultiRows == [1..NRecs -> DbRecs \cup DerivedRecs]

RECURSIVE derivedLen(_)
derivedLen(row) ==
    IF row = <<>> THEN 0
    ELSE (IF Head(row).Off = 0 THEN Len(Head(row).Record) ELSE 0) + derivedLen(Tail(row))

\* n := it.nrecs * stor.SmallOffsetLen, plus len(dbrec.Record) of the derived records
rowSize(row) == NRecs * SmallOffsetLen + derivedLen(row)

\* a build that takes every row: mutated form
neverTooLarge(n) == FALSE

\* if n > derivedMaxSize { panic("temp index: derived too large") }
tooLarge(n) == n > derivedMaxSize

\* the size stored as it is: mutated form
plainSize(len) == len

\* multiMask|uint64(size)
derivedWord(len) == BitOr(multiMask, len)

\* the bytes multi writes for one record
putRec(dbrec) ==
    IF dbrec.Off > 0 THEN WriteSmallOffset(dbrec.Off)
    ELSE WriteSmallOffset(derivedWord(Len(dbrec.Record))) \o dbrec.Record

RECURSIVE putRow(_)
putRow(row) == IF row = <<>> THEN <<>> ELSE putRec(Head(row)) \o putRow(Tail(row))

\* getRec: the buffer past the record, the record, and its offset
getRec(buf) ==
    LET off == ReadSmallOffset(SubSeq(buf, 1, SmallOffsetLen))
        rest == SubSeq(buf, SmallOffsetLen + 1, Len(buf))
    IN  IF off < multiMask THEN [buf |-> rest, rec |-> [Off |-> off, Record |-> GetRecord(off)]]
        ELSE LET len == BitAndNot(off, multiMask)
             IN  [buf |-> SubSeq(rest, len + 1, Len(rest)),
                  rec |-> [Off |-> 0, Record |-> SubSeq(rest, 1, len)]]

RECURSIVE getRecs(_, _)
getRecs(buf, n) ==
    IF n = 0 THEN <<>>
    ELSE LET r == getRec(buf) IN <<r.rec>> \o getRecs(r.buf, n - 1)

\* multiIter.get: nrecs records from heap.Data(off)
multiGet(heap, off) == getRecs(SubSeq(heap, off + 1, Len(heap)), NRecs)

\* the offset Stor.Alloc(n) returns in a heap of the given size
heapOffset(sz, n) ==
    IF (sz + n) \div heapChunkSize >= (sz + heapChunkSize - 1) \div heapChunkSize
    THEN ((sz + n) \div heapChunkSize) * heapChunkSize
    ELSE sz

\* assert.That(0 < n && n <= int(s.chunksize))
allocAsserts(n) == 0 < n /\ n <= heapChunkSize

noRow == [i |-> 0, row |-> <<>>]

\* multi up to its loop: stor.HeapStor(heapChunkSize) and it.heap.Alloc(1)
MultiInit ==
    /\ msource \in UNION {[1..n -> MultiRows] : n \in 0..MaxMultiRows}
    /\ mheap = Zeros(1)
    /\ mu = [pc |-> "build", next |-> 1, offs |-> <<>>, got |-> noRow]

MultiIdle ==
    /\ msource = <<>>
    /\ mheap = Zeros(1)
    /\ mu = [pc |-> "build", next |-> 1, offs |-> <<>>, got |-> noRow]

\* one pass of the loop of multi over a row of the source
MultiAdd ==
    /\ mu.pc = "build"
    /\ mu.next <= Len(msource)
    /\ LET row == msource[mu.next]
           n == rowSize(row)
           off == heapOffset(Len(mheap), n)
       IN  IF tooLarge(n)
           THEN mu' = [mu EXCEPT !.pc = "panic"] /\ UNCHANGED mheap
           ELSE IF ~allocAsserts(n)
           THEN mu' = [mu EXCEPT !.pc = "assert"] /\ UNCHANGED mheap
           ELSE /\ mheap' = mheap \o Zeros(off - Len(mheap)) \o putRow(row)
                /\ mu' = [mu EXCEPT !.next = @ + 1, !.offs = Append(@, off)]
    /\ UNCHANGED msource
    /\ UNCHANGED notMulti

\* the source returned nil: b.Finish()
MultiFinish ==
    /\ mu.pc = "build"
    /\ mu.next > Len(msource)
    /\ mu' = [mu EXCEPT !.pc = "built"]
    /\ UNCHANGED <<msource, mheap>>
    /\ UNCHANGED notMulti

\* multiIter.get of one of the offsets in the sortlist
MultiRead(i) ==
    /\ mu.pc = "built"
    /\ i \in 1..Len(mu.offs)
    /\ mu' = [mu EXCEPT !.got = [i |-> i, row |-> multiGet(mheap, mu.offs[i])]]
    /\ UNCHANGED <<msource, mheap>>
    /\ UNCHANGED notMulti

MultiNext ==
    \/ MultiAdd
    \/ MultiFinish
    \/ \E i \in 1..MaxMultiRows : MultiRead(i)

-----------------------------------------------------------------------------
(* Compact and its worker pool (src/unnamed/part_003) *)

CompactTables == 1..MaxTables

Workers == 1..MaxWorkers

\* the sequences that hold each table of a set once
Orders(T) == {s \in [1..Cardinality(T) -> T] : \A i, j \in 1..Cardinality(T) : s[i] = s[j] => i = j}

\* sort.Slice(schemas, nrows descending): any order with the larger tables first
sortedSchemas(T, nrows) ==
    {s \in Orders(T) : \A i, j \in 1..Len(s) : i < j => nrows[s[i]] >= nrows[s[j]]}

noJob == 0

\* Compact up to the start of the workers: the schemas are collected and sorted
CompactInit ==
    /\ \E T \in SUBSET CompactTables : \E nrows \in [T -> 0..1], bad \in SUBSET T :
          \E s \in sortedSchemas(T, nrows), nw \in 1..MaxWorkers :
              cmain = [pc |-> "spawn", schemas |-> s, next |-> 1, nworkers |-> nw,
                       started |-> 0, wg |-> 0, closed |-> FALSE, bad |-> bad]
    /\ cwork = [w \in Workers |-> [pc |-> "none", job |-> noJob]]
    /\ cdst = [tables |-> {}, root |-> <<>>, renamed |-> FALSE]
    /\ clog = [sent |-> <<>>, processed |-> <<>>]

CompactIdle ==
    /\ cmain = [pc |-> "done", schemas |-> <<>>, next |-> 1, nworkers |-> 1,
                started |-> 0, wg |-> 0, closed |-> FALSE, bad |-> {}]
    /\ cwork = [w \in Workers |-> [pc |-> "none", job |-> noJob]]
    /\ cdst = [tables |-> {}, root |-> <<>>, renamed |-> FALSE]
    /\ clog = [sent |-> <<>>, processed |-> <<>>]

\* for range options.Nworkers { wg.Add(1); go func() { ... }() }
CompactSpawn ==
    /\ cmain.pc = "spawn"
    /\ cmain.started < cmain.nworkers
    /\ cmain' = [cmain EXCEPT !.wg = @ + 1, !.started = @ + 1,
                             !.pc = IF cmain.started + 1 = cmain.nworkers THEN "send" ELSE @]
    /\ cwork' = [cwork EXCEPT ![cmain.started + 1].pc = "recv"]
    /\ UNCHANGED <<cdst, clog>>
    /\ UNCHANGED notCompact

\* channel <- compactJob{...} meets for job := range channel in worker w: the
\* channel is unbuffered, so the send and the receive are one step
CompactSend(w) ==
    /\ cmain.pc = "send"
    /\ cmain.next <= Len(cmain.schemas)
    /\ cwork[w].pc = "recv"
    /\ cmain' = [cmain EXCEPT !.next = @ + 1]
    /\ cwork' = [cwork EXCEPT ![w] = [pc |-> "work", job |-> cmain.schemas[cmain.next]]]
    /\ clog' = [clog EXCEPT !.sent = Append(@, cmain.schemas[cmain.next])]
    /\ UNCHANGED cdst
    /\ UNCHANGED notCompact

\* close(channel), after the loop over schemas
CompactClose ==
    /\ cmain.pc = "send"
    /\ cmain.next > Len(cmain.schemas)
    /\ cmain' = [cmain EXCEPT !.closed = TRUE, !.pc = "wait"]
    /\ UNCHANGED <<cwork, cdst, clog>>
    /\ UNCHANGED notCompact

\* compactTable: the table is checked, copied and added to the destination; a panic
\* is fatal to the process
compactTable(w) ==
    /\ cmain.pc \notin {"fatal", "done"}
    /\ cwork[w].pc = "work"
    /\ IF cwork[w].job \in cmain.bad
       THEN /\ cmain' = [cmain EXCEPT !.pc = "fatal"]
            /\ UNCHANGED <<cwork, cdst, clog>>
       ELSE /\ cdst' = [cdst EXCEPT !.tables = @ \cup {cwork[w].job}]
            /\ clog' = [clog EXCEPT !.processed = Append(@, [table |-> cwork[w].job, worker |-> w])]
            /\ cwork' = [cwork EXCEPT ![w].pc = "recv"]
            /\ UNCHANGED cmain
    /\ UNCHANGED notCompact

\* the range over the closed channel ends: wg.Done()
WorkerExit(w) ==
    /\ cmain.pc # "fatal"
    /\ cwork[w].pc = "recv"
    /\ cmain.closed
    /\ cwork' = [cwork EXCEPT ![w].pc = "done"]
    /\ cmain' = [cmain EXCEPT !.wg = @ - 1]
    /\ UNCHANGED <<cdst, clog>>
    /\ UNCHANGED notCompact

\* a wait that returns at once: mutated form
waitSkipped(wg) == TRUE

\* wg.Wait() returns when the counter is zero
waitReturns(wg) == wg = 0

\* wg.Wait()
CompactWait ==
    /\ cmain.pc = "wait"
    /\ waitReturns(cmain.wg)
    /\ cmain' = [cmain EXCEPT !.pc = "write"]
    /\ UNCHANGED <<cwork, cdst, clog>>
    /\ UNCHANGED notCompact

\* dst.GetState().Write(): the state root holds the tables added so far
CompactWrite ==
    /\ cmain.pc = "write"
    /\ cdst' = [cdst EXCEPT !.root = <<cdst.tables>>]
    /\ cmain' = [cmain EXCEPT !.pc = "rename"]
    /\ UNCHANGED <<cwork, clog>>
    /\ UNCHANGED notCompact

\* dst.Close(); src.Close(); system.RenameBak(tmpfile, dbfile)
CompactRename ==
    /\ cmain.pc = "rename"
    /\ cdst' = [cdst EXCEPT !.renamed = TRUE]
    /\ cmain' = [cmain EXCEPT !.pc = "done"]
    /\ UNCHANGED <<cwork, clog>>
    /\ UNCHANGED notCompact

CompactNext ==
    \/ CompactSpawn
    \/ \E w \in Workers : CompactSend(w)
    \/ CompactClose
    \/ \E w \in Workers : compactTable(w)
    \/ \E w \in Workers : WorkerExit(w)
    \/ CompactWait
    \/ CompactWrite
    \/ CompactRename

\* the Go scheduler runs every goroutine that can take a step
CompactFairness ==
    /\ \A w \in Workers : WF_vars(compactTable(w) \/ WorkerExit(w))
    /\ WF_vars(CompactSpawn \/ CompactClose \/ CompactWait \/ CompactWrite \/ CompactRename)
    /\ WF_vars(\E w \in Workers : CompactSend(w))

-----------------------------------------------------------------------------
(* DbmsLocal: Timestamp, Use and Unuse (src/base/ops_test.go) *)

\* the library names the callers use
Libs == {"stdlib", "lib1", "lib2"}

\* the zero SuDate, the initial value of prevTimestamp; Now() is later
zeroDate == 0

\* str.List(list).Has(s)
Has(list, s) == \E i \in 1..Len(list) : list[i] = s

RECURSIVE Without(_, _)
\* str.List(list).Without(s)
Without(list, s) ==
    IF list = <<>> THEN <<>>
    ELSE (IF Head(list) = s THEN <<>> ELSE <<Head(list)>>) \o Without(Tail(list), s)

\* NewDbmsLocal: &DbmsLocal{db: db}, libraries is nil
DbmsInit ==
    /\ dbl = [libraries |-> <<>>]
    /\ prevTimestamp = zeroDate
    /\ clk \in 1..MaxClock
    /\ dlog = <<>>

DbmsIdle ==
    /\ dbl = [libraries |-> <<>>]
    /\ prevTimestamp = zeroDate
    /\ clk = 1
    /\ dlog = <<>>

\* func (dbms DbmsLocal): the method runs on a copy of the caller's struct, and what
\* it assigns to the fields of dbms is dropped with the copy
valueReceiver(caller, assigned) == caller

\* t.Plus(0, 0, 0, 0, 0, 0, 1): one millisecond later
Plus1ms(t) == t + 1

\* DbmsLocal.Timestamp; Now() returns the time of the clock, which never goes back
Timestamp ==
    /\ Len(dlog) < MaxCalls
    /\ \E now \in clk..MaxClock :
          LET t == IF now = prevTimestamp THEN Plus1ms(now) ELSE now
          IN  /\ clk' = now
              /\ prevTimestamp' = t
              /\ dlog' = Append(dlog, [op |-> "Timestamp", lib |-> "", now |-> now, ret |-> t])
    /\ UNCHANGED dbl
    /\ UNCHANGED notDbms

\* the body of Use on its receiver: the result, and the receiver after it
useBody(dbms, lib) ==
    IF Has(dbms.libraries, lib)
    THEN [ret |-> FALSE, dbms |-> dbms]
    ELSE [ret |-> TRUE, dbms |-> [dbms EXCEPT !.libraries = Append(@, lib)]]

\* the body of Unuse on its receiver
unuseBody(dbms, lib) ==
    IF lib = "stdlib" \/ ~Has(dbms.libraries, lib)
    THEN [ret |-> FALSE, dbms |-> dbms]
    ELSE [ret |-> TRUE, dbms |-> [dbms EXCEPT !.libraries = Without(@, lib)]]

\* DbmsLocal.Use
Use(lib) ==
    /\ Len(dlog) < MaxCalls
    /\ LET r == useBody(dbl, lib)
       IN  /\ dbl' = valueReceiver(dbl, r.dbms)
           /\ dlog' = Append(dlog, [op |-> "Use", lib |-> lib, now |-> 0, ret |-> r.ret])
    /\ UNCHANGED <<prevTimestamp, clk>>
    /\ UNCHANGED notDbms

\* DbmsLocal.Unuse
Unuse(lib) ==
    /\ Len(dlog) < MaxCalls
    /\ LET r == unuseBody(dbl, lib)
       IN  /\ dbl' = valueReceiver(dbl, r.dbms)
           /\ dlog' = Append(dlog, [op |-> "Unuse", lib |-> lib, now |-> 0, ret |-> r.ret])
    /\ UNCHANGED <<prevTimestamp, clk>>
    /\ UNCHANGED notDbms

DbmsNext ==
    \/ Timestamp
    \/ \E lib \in Libs : Use(lib)
    \/ \E lib \in Libs : Unuse(lib)

-----------------------------------------------------------------------------
(* Seq and seqIter (src/unnamed/part_007) *)

\* the arguments of Seq: False for one left out
SeqArgs == {False} \cup 0..MaxSeq

\* Seq(from, to=false, by=1): the seqIter it makes
NewSeq(from, to, by) ==
    LET f == IF from = False THEN 0 ELSE IF to = False THEN 0 ELSE from
        t == IF from = False THEN MaxInt ELSE IF to = False THEN from ELSE to
    IN  [from |-> f, to |-> t, by |-> by, i |-> f]

noIter == [from |-> 0, to |-> 0, by |-> 0, i |-> 0]

SeqInit ==
    /\ sq \in {NewSeq(from, to, by) : from \in SeqArgs, to \in SeqArgs, by \in 1..MaxSeqBy}
    /\ sqd = noIter
    /\ sqlog = [orig |-> <<>>, dup |-> <<>>, at |-> 0]

SeqIdle ==
    /\ sq = NewSeq(0, 0, 1)
    /\ sqd = noIter
    /\ sqlog = [orig |-> <<>>, dup |-> <<>>, at |-> 0]

\* seqIter.Next: the value returned (nil at the end) and the iterator after it
seqNext(seq) ==
    IF seq.i >= seq.to
    THEN [ret |-> Nil, seq |-> seq]
    ELSE [ret |-> <<seq.i>>, seq |-> [seq EXCEPT !.i = seq.i + seq.by]]

\* Next on the original
seqIterNext ==
    /\ Len(sqlog.orig) < MaxSeqGets
    /\ LET r == seqNext(sq)
       IN  /\ sq' = r.seq
           /\ sqlog' = [sqlog EXCEPT !.orig = Append(@, r.ret)]
    /\ UNCHANGED sqd
    /\ UNCHANGED notSeq

\* seqIter.Dup: &seqIter{seq.from, seq.to, seq.by, 0}
seqIterDup ==
    /\ sqd = noIter
    /\ sqd' = [from |-> sq.from, to |-> sq.to, by |-> sq.by, i |-> 0]
    /\ sqlog' = [sqlog EXCEPT !.at = Len(sqlog.orig)]
    /\ UNCHANGED sq
    /\ UNCHANGED notSeq

\* Next on the duplicate
dupNext ==
    /\ sqd # noIter
    /\ Len(sqlog.dup) < MaxSeqGets
    /\ LET r == seqNext(sqd)
       IN  /\ sqd' = r.seq
           /\ sqlog' = [sqlog EXCEPT !.dup = Append(@, r.ret)]
    /\ UNCHANGED sq
    /\ UNCHANGED notSeq

SeqNext ==
    \/ seqIterNext
    \/ seqIterDup
    \/ dupNext

-----------------------------------------------------------------------------
(* ast.Folder.In (src/compile/ast/folder.go) *)

\* *Constant
Constant(val) == [type |-> "Constant", val |-> val, e |-> <<>>, exprs |-> <<>>]

\* an expression that is not a constant: the identifier of a number
Ident(name) == [type |-> "Ident", val |-> name, e |-> <<>>, exprs |-> <<>>]

\* the expressions given to the folder: constants and identifiers
FoldExprs == {Constant(v) : v \in 0..MaxFoldVal} \cup {Ident(n) : n \in 1..NIdents}

isConstant(e) == e.type = "Constant"

\* Factory.In of the wrapped factory: the In node of a subject and its elements
FactoryIn(e, exprs) == [type |-> "In", val |-> 0, e |-> <<e>>, exprs |-> exprs]

\* Value.Equal
Equal(v1, v2) == v1 = v2

RECURSIVE foldIn(_, _, _)
\* the loop of Folder.In from element i on: for _, e := range exprs declares a new
\* e, so the e given to f.Factory.In inside the loop is the element
foldIn(c, exprs, i) ==
    IF i > Len(exprs) THEN Constant(False)
    ELSE LET e == exprs[i]
         IN  IF ~isConstant(e) THEN FactoryIn(e, exprs)
             ELSE IF Equal(c.val, e.val) THEN Constant(True)
             ELSE foldIn(c, exprs, i + 1)

\* Folder.In
In(e, exprs) ==
    IF ~isConstant(e) THEN FactoryIn(e, exprs)
    ELSE foldIn(e, exprs, 1)

noExpr == [type |-> "none", val |-> 0, e |-> <<>>, exprs |-> <<>>]

FoldInit ==
    /\ fin \in {[e |-> e, exprs |-> es] :
                   e \in FoldExprs, es \in UNION {[1..n -> FoldExprs] : n \in 0..MaxIn}}
    /\ fout = noExpr

FoldIdle ==
    /\ fin = [e |-> Constant(0), exprs |-> <<>>]
    /\ fout = Constant(0)

\* the parser calls Folder.In
FoldApply ==
    /\ fout = noExpr
    /\ fout' = In(fin.e, fin.exprs)
    /\ UNCHANGED fin
    /\ UNCHANGED notFold

FoldNext == FoldApply

-----------------------------------------------------------------------------
(* builtin.suScanner (src/builtin/scanner.go) and MayLock (src/unnamed/part_001) *)

ScanThreads == 1..NScanThreads

\* the tokens of the sources scanned; If is a keyword
TokenKinds == {"Identifier", "Number", "If"}

ScanSources == UNION {[1..n -> TokenKinds] : n \in 0..MaxTokens}

\* the zero lexer.Item
zeroItem == [Token |-> "Nil", Pos |-> 0, Text |-> <<>>]

\* lexer.Next: the next token and the lexer after it; Eof at the end of the source
lexerNext(lxr) ==
    IF lxr.pos >= Len(lxr.src)
    THEN [item |-> [Token |-> "Eof", Pos |-> lxr.pos, Text |-> <<>>], lxr |-> lxr]
    ELSE [item |-> [Token |-> lxr.src[lxr.pos + 1], Pos |-> lxr.pos,
                    Text |-> <<lxr.src[lxr.pos + 1]>>],
          lxr |-> [lxr EXCEPT !.pos = @ + 1]]

\* Token.IsIdent: identifiers and keywords
IsIdent(token) == token \in {"Identifier", "If"}

\* suScanner.type2
type2(item) ==
    IF IsIdent(item.Token) THEN "IDENTIFIER"
    ELSE IF item.Token = "Number" THEN "NUMBER"
    ELSE ""

ScanMethods == {"Keyword?", "Length", "Next", "Next2", "Position", "Text", "Type", "Value"}

\* Scanner(string): &suScanner{lxr: *lexer.NewLexer(s), name: "Scanner"}
ScanInit ==
    /\ scn \in {[concurrent |-> FALSE, lock |-> 0, shared |-> FALSE, fatal |-> FALSE,
                 lxr |-> [src |-> s, pos |-> 0], item |-> zeroItem, calls |-> 0] :
                   s \in ScanSources}
    /\ scth = [t \in ScanThreads |-> [pc |-> "idle", stack |-> <<>>, ret |-> <<>>]]

ScanIdle ==
    /\ scn = [concurrent |-> FALSE, lock |-> 0, shared |-> FALSE, fatal |-> FALSE,
              lxr |-> [src |-> <<>>, pos |-> 0], item |-> zeroItem, calls |-> 0]
    /\ scth = [t \in ScanThreads |-> [pc |-> "idle", stack |-> <<>>, ret |-> <<>>]]

\* the innermost call of thread t
top(t) == scth[t].stack[Len(scth[t].stack)]

\* a thread calls a method of the scanner; only its creator has a scanner that has
\* not been shared
ScanCall(t, m) ==
    /\ ~scn.fatal
    /\ scn.calls < MaxScanCalls
    /\ t = 1 \/ scn.shared
    /\ scth[t].pc = "idle"
    /\ scth' = [scth EXCEPT ![t] = [pc |-> "lock", stack |-> <<[fn |-> m, locked |-> FALSE]>>,
                                    ret |-> <<>>]]
    /\ scn' = [scn EXCEPT !.calls = @ + 1]
    /\ UNCHANGED notScan

\* MayLock.Lock: if x.concurrent { x.lock.Lock(); return true }; return false
ScanLock(t) ==
    /\ ~scn.fatal
    /\ scth[t].pc = "lock"
    /\ scn.concurrent => scn.lock = 0
    /\ scn' = [scn EXCEPT !.lock = IF scn.concurrent THEN t ELSE @]
    /\ scth' = [scth EXCEPT ![t].pc = "body",
                            ![t].stack[Len(scth[t].stack)].locked = scn.concurrent]
    /\ UNCHANGED notScan

\* the body of the method after its Lock: next goes on to call text
ScanBody(t) ==
    /\ ~scn.fatal
    /\ scth[t].pc = "body"
    /\ LET fn == top(t).fn
           nx == lexerNext(scn.lxr)
           from == scn.item.Pos
           to == scn.lxr.pos
       IN  IF fn \in {"Next", "Next2"}
           THEN /\ scn' = [scn EXCEPT !.lxr = nx.lxr, !.item = nx.item]
                /\ IF nx.item.Token = "Eof"
                   THEN scth' = [scth EXCEPT ![t].pc = "ret", ![t].ret = <<"sc">>]
                   ELSE IF fn = "Next"
                   THEN scth' = [scth EXCEPT ![t].pc = "lock",
                                   ![t].stack = Append(@, [fn |-> "Text", locked |-> FALSE])]
                   ELSE scth' = [scth EXCEPT ![t].pc = "ret", ![t].ret = <<type2(nx.item)>>]
           ELSE /\ UNCHANGED scn
                /\ scth' = [scth EXCEPT ![t].pc = "ret", ![t].ret =
                      IF fn = "Text" THEN <<SubSeq(scn.lxr.src, from + 1, to)>>
                      ELSE IF fn = "Length" THEN <<to - from>>
                      ELSE IF fn = "Position" THEN <<to>>
                      ELSE IF fn = "Type" THEN <<type2(scn.item)>>
                      ELSE IF fn = "Value" THEN <<scn.item.Text>>
                      ELSE <<scn.item.Token # "Identifier" /\ IsIdent(scn.item.Token)>>]
    /\ UNCHANGED notScan

\* the return of the innermost call: the deferred MayLock.Unlock if Lock returned true
ScanReturn(t) ==
    /\ ~scn.fatal
    /\ scth[t].pc = "ret"
    /\ scn' = [scn EXCEPT !.lock = IF top(t).locked THEN 0 ELSE @]
    /\ scth' = [scth EXCEPT ![t].stack = SubSeq(@, 1, Len(@) - 1),
                            ![t].pc = IF Len(scth[t].stack) > 1 THEN "ret" ELSE "idle"]
    /\ UNCHANGED notScan

\* the scanner is about to be shared with another thread: suScanner.SetConcurrent
\* calls MayLock.SetConcurrent, which is log.Fatalln("SetConcurrent must be defined")
ScanSetConcurrent ==
    /\ ~scn.fatal
    /\ ~scn.shared
    /\ scth[1].pc = "idle"
    /\ scn' = [scn EXCEPT !.shared = TRUE, !.fatal = TRUE]
    /\ UNCHANGED scth
    /\ UNCHANGED notScan

ScanNext ==
    \/ \E t \in ScanThreads, m \in ScanMethods : ScanCall(t, m)
    \/ \E t \in ScanThreads : ScanLock(t)
    \/ \E t \in ScanThreads : ScanBody(t)
    \/ \E t \in ScanThreads : ScanReturn(t)
    \/ ScanSetConcurrent

-----------------------------------------------------------------------------
(* Specifications *)

InitStor == NewStor /\ StateIdle /\ TranIdle /\ UnionIdle /\ RepairIdle /\ MergeIdle /\ SumIdle
    /\ ScanIdle
    /\ FoldIdle
    /\ SeqIdle
    /\ DbmsIdle
    /\ CompactIdle
    /\ MultiIdle
    /\ TiIdle
    /\ XformIdle

SpecStor == InitStor /\ [][StorNext]_vars

\* the steps of one goroutine inside Alloc
AllocStep(p) ==
    \/ AllocLoad(p) \/ AllocStraddle(p) \/ getChunkLock(p) \/ getChunk(p)
    \/ AllocCas(p) \/ AllocThreshold(p) \/ AllocReturn(p)

\* the Go scheduler runs every goroutine that can take a step
StorFairness == \A p \in Procs : WF_vars(AllocStep(p))

SpecStorLive == InitStor /\ [][StorNext]_vars /\ StorFairness

InitState == StateInit /\ StorIdle /\ TranIdle /\ UnionIdle /\ RepairIdle /\ MergeIdle /\ SumIdle
    /\ ScanIdle
    /\ FoldIdle
    /\ SeqIdle
    /\ DbmsIdle
    /\ CompactIdle
    /\ MultiIdle
    /\ TiIdle
    /\ XformIdle

SpecState == InitState /\ [][StateNext]_vars

InitTran == TranInit /\ StorIdle /\ StateIdle /\ UnionIdle /\ RepairIdle /\ MergeIdle /\ SumIdle
    /\ ScanIdle
    /\ FoldIdle
    /\ SeqIdle
    /\ DbmsIdle
    /\ CompactIdle
    /\ MultiIdle
    /\ TiIdle
    /\ XformIdle

SpecTran == InitTran /\ [][TranNext]_vars

InitUnion == UnionInit /\ StorIdle /\ StateIdle /\ TranIdle /\ RepairIdle /\ MergeIdle /\ SumIdle
    /\ ScanIdle
    /\ FoldIdle
    /\ SeqIdle
    /\ DbmsIdle
    /\ CompactIdle
    /\ MultiIdle
    /\ TiIdle
    /\ XformIdle

SpecUnion == InitUnion /\ [][UnionNext]_vars

InitRepair == RepairInit /\ StorIdle /\ StateIdle /\ TranIdle /\ UnionIdle /\ MergeIdle /\ SumIdle
    /\ ScanIdle
    /\ FoldIdle
    /\ SeqIdle
    /\ DbmsIdle
    /\ CompactIdle
    /\ MultiIdle
    /\ TiIdle
    /\ XformIdle

SpecRepair == InitRepair /\ [][RepairNext]_vars

\* Repair is one call and its loop keeps running: weak fairness of RepairLoop,
\* which is enabled exactly while Repair is in its loop (loopIteration is total and
\* changes rep), written without ENABLED
RepairFairness == []<>(rep.pc # "scan") \/ []<><<RepairLoop>>_vars

SpecRepairLive == InitRepair /\ [][RepairNext]_vars /\ RepairFairness

InitMerge == MergeInit /\ StorIdle /\ StateIdle /\ TranIdle /\ UnionIdle /\ RepairIdle /\ SumIdle
    /\ ScanIdle
    /\ FoldIdle
    /\ SeqIdle
    /\ DbmsIdle
    /\ CompactIdle
    /\ MultiIdle
    /\ TiIdle
    /\ XformIdle

SpecMerge == InitMerge /\ [][MergeNext]_vars

InitSum ==
    SumInit /\ StorIdle /\ StateIdle /\ TranIdle /\ UnionIdle /\ RepairIdle /\ MergeIdle
    /\ ScanIdle
    /\ FoldIdle
    /\ SeqIdle
    /\ DbmsIdle
    /\ CompactIdle
    /\ MultiIdle
    /\ TiIdle
    /\ XformIdle

SpecSum == InitSum /\ [][SumNext]_vars

InitXform ==
    XformInit /\ StorIdle /\ StateIdle /\ TranIdle /\ UnionIdle
    /\ ScanIdle
    /\ FoldIdle
    /\ SeqIdle
    /\ DbmsIdle
    /\ CompactIdle
    /\ MultiIdle
    /\ TiIdle
    /\ RepairIdle /\ MergeIdle /\ SumIdle

SpecXform == InitXform /\ [][XformNext]_vars

InitTi ==
    TiInit /\ StorIdle /\ StateIdle /\ TranIdle /\ UnionIdle
    /\ ScanIdle
    /\ FoldIdle
    /\ SeqIdle
    /\ DbmsIdle
    /\ CompactIdle
    /\ MultiIdle
    /\ RepairIdle /\ MergeIdle /\ SumIdle /\ XformIdle

SpecTi == InitTi /\ [][TiNext]_vars

InitMulti ==
    MultiInit /\ StorIdle /\ StateIdle /\ TranIdle /\ UnionIdle
    /\ ScanIdle
    /\ FoldIdle
    /\ SeqIdle
    /\ DbmsIdle
    /\ CompactIdle
    /\ RepairIdle /\ MergeIdle /\ SumIdle /\ TiIdle /\ XformIdle

SpecMulti == InitMulti /\ [][MultiNext]_vars

InitCompact ==
    CompactInit /\ StorIdle /\ StateIdle /\ TranIdle /\ UnionIdle
    /\ ScanIdle
    /\ FoldIdle
    /\ SeqIdle
    /\ DbmsIdle
    /\ RepairIdle /\ MergeIdle /\ SumIdle /\ MultiIdle /\ TiIdle /\ XformIdle

SpecCompact == InitCompact /\ [][CompactNext]_vars

SpecCompactLive == InitCompact /\ [][CompactNext]_vars /\ CompactFairness

InitDbms ==
    DbmsInit /\ StorIdle /\ StateIdle /\ TranIdle /\ UnionIdle
    /\ ScanIdle
    /\ FoldIdle
    /\ SeqIdle
    /\ RepairIdle /\ MergeIdle /\ SumIdle /\ CompactIdle /\ MultiIdle /\ TiIdle /\ XformIdle

SpecDbms == InitDbms /\ [][DbmsNext]_vars

InitSeq ==
    SeqInit /\ StorIdle /\ StateIdle /\ TranIdle /\ UnionIdle
    /\ ScanIdle
    /\ FoldIdle
    /\ RepairIdle /\ MergeIdle /\ SumIdle /\ DbmsIdle /\ CompactIdle /\ MultiIdle /\ TiIdle /\ XformIdle

SpecSeq == InitSeq /\ [][SeqNext]_vars

InitFold ==
    FoldInit /\ StorIdle /\ StateIdle /\ TranIdle /\ UnionIdle
    /\ ScanIdle
    /\ RepairIdle /\ MergeIdle /\ SumIdle /\ SeqIdle /\ DbmsIdle /\ CompactIdle /\ MultiIdle /\ TiIdle /\ XformIdle

SpecFold == InitFold /\ [][FoldNext]_vars

InitScan ==
    ScanInit /\ StorIdle /\ StateIdle /\ TranIdle /\ UnionIdle
    /\ RepairIdle /\ MergeIdle /\ SumIdle /\ FoldIdle /\ SeqIdle /\ DbmsIdle /\ CompactIdle /\ MultiIdle /\ TiIdle /\ XformIdle

SpecScan == InitScan /\ [][ScanNext]_vars

-----------------------------------------------------------------------------
(* Claims about the store *)

Range(a) == a.off .. (a.off + a.n - 1)

\* C1: under any interleaving of concurrent Allocs the ranges [offset, offset+n) of
\* the allocations returned are pairwise disjoint.
C1_AllocDisjoint ==
    \A i, j \in 1..Len(allocated) :
        i # j => Range(allocated[i]) \cap Range(allocated[j]) = {}

\* two threads have both been handed an allocation, one of them after losing a
\* compare-and-swap to the other
C1_Witness ==
    \E i, j \in 1..Len(allocated) :
        /\ allocated[i].p # allocated[j].p
        /\ allocated[j].lost

\* C2: every range returned by Alloc lies inside one chunk, and a request that does
\* not fit in the rest of the current chunk starts at the first byte of the next chunk.
C2_ChunkLocal ==
    \A i \in 1..Len(allocated) :
        LET a == allocated[i]
        IN  /\ offsetToChunk(a.off) = offsetToChunk(a.off + a.n - 1)
            /\ (a.old % chunksize) + a.n > chunksize
                  => a.off = chunkToOffset(offsetToChunk(a.old) + 1)

\* an allocation that did not fit has skipped the tail of its chunk
C2_Witness ==
    \E i \in 1..Len(allocated) :
        LET a == allocated[i]
        IN  /\ (a.old % chunksize) + a.n > chunksize
            /\ a.old % chunksize # 0
            /\ a.off > a.old

\* no Alloc is in progress
quiescent == \A p \in Procs : al[p].pc \in {"idle", "fatal"}

RECURSIVE SumLengths(_)
SumLengths(as) == IF as = <<>> THEN 0 ELSE Head(as).n + SumLengths(Tail(as))

\* the bytes between the size an allocation started from and its offset
RECURSIVE SumSkipped(_)
SumSkipped(as) == IF as = <<>> THEN 0 ELSE (Head(as).off - Head(as).old) + SumSkipped(Tail(as))

\* C15 as stated: under N concurrent allocators starting from size = initial, the
\* lengths of all the ranges Alloc returned sum to size - initial.
C15_LengthsSumToSize ==
    quiescent /\ size # closedSize => SumLengths(allocated) = size - initial

\* C15 (amended): the lengths of all the ranges Alloc returned, plus the bytes each
\* allocation skipped at the end of a chunk, sum to size - initial; the lengths alone
\* sum to size - initial only if no allocation skipped anything.
C15_LengthsAndSkipped ==
    quiescent /\ size # closedSize =>
        /\ SumLengths(allocated) + SumSkipped(allocated) = size - initial
        /\ SumLengths(allocated) <= size - initial
        /\ SumLengths(allocated) = size - initial <=> SumSkipped(allocated) = 0

\* two threads have allocated, one after losing a compare-and-swap, and one of the
\* allocations skipped the end of a chunk
C15_Witness ==
    /\ quiescent /\ size # closedSize
    /\ \E i, j \in 1..Len(allocated) :
          /\ allocated[i].p # allocated[j].p
          /\ allocated[j].lost
    /\ SumSkipped(allocated) > 0

\* C16 as stated: after Close, for every storage implementation, the size is the
\* closed sentinel, Size is fatal, and no Alloc that starts or is still retrying
\* after Close returns an allocation or changes the size.
C16_ClosedAll ==
    closed =>
        /\ size = closedSize
        /\ SizeFatal
        /\ \A i \in 1..Len(allocated) : ~allocated[i].late
        /\ \A p \in Procs : ~al[p].late

\* C16 (amended): after Close of a store whose implementation is not a heapStor, the
\* size is the closed sentinel, Size is fatal, and no Alloc that starts or is still
\* retrying after Close returns an allocation or changes the size: it ends in the
\* fatal exit. A heapStor keeps its size when closed.
C16_ClosedMapped ==
    /\ closed /\ ~implHeap =>
          /\ size = closedSize
          /\ SizeFatal
          /\ \A i \in 1..Len(allocated) : ~allocated[i].late
          /\ \A p \in Procs : ~al[p].late
    /\ \A p \in Procs : al[p].pc = "fatal" => closed /\ ~implHeap
    /\ closed /\ implHeap => size # closedSize

\* a store that is not a heapStor was closed while an Alloc was between its load and
\* its compare-and-swap; the Alloc lost the compare-and-swap and ended in the fatal exit
C16_Witness ==
    /\ closed /\ ~implHeap
    /\ \E p \in Procs : al[p].pc = "fatal" /\ al[p].lost

-----------------------------------------------------------------------------
(* Claims about the state holder *)

\* the positions of updateState at which the mutex is held
InUpdate == {"copy", "fnCopy", "fnApply", "fnAssign", "set", "unlock"}

\* the transactions a meta holds, in its index root, its shared mbtree and its overlays
TransOf(m) == rootContent[m.root] \cup m.mb \cup m.ovl

\* the number of states a thread has installed
InstalledBy(u) == Cardinality({i \in 1..Len(installed) : installed[i].by = u})

\* C3: UpdateState calls are mutually exclusive and totally ordered; each update
\* function works on a copy of the most recently installed state, every installed
\* state is built on its predecessor, and no installed update is lost.
C3_UpdatesOrdered ==
    /\ Cardinality({u \in Updaters : up[u].pc \in InUpdate}) <= 1
    /\ \A u \in Updaters :
          up[u].pc \in {"fnCopy", "fnApply", "fnAssign", "set"} =>
              /\ up[u].base = shState
              /\ up[u].newState # shState
    /\ \A i \in 2..Len(installed) : installed[i].base = installed[i - 1].id
    /\ installed[Len(installed)].id = shState
    /\ TransOf(DeepVal(shState).meta) = committed
    /\ \A t \in 1..InstalledBy("merger") : t \notin DeepVal(shState).meta.ovl
    /\ DeepVal(shState).meta.root = 1 + InstalledBy("persister")

\* a thread waits for the mutex while another is inside updateState, after two
\* threads have already installed a state
C3_Witness ==
    /\ \E u, v \in Updaters :
          /\ up[u].pc = "lock"
          /\ up[v].pc \in {"fnCopy", "fnApply", "fnAssign", "set"}
          /\ shMutex = v
    /\ \E i, j \in 2..Len(installed) : installed[i].by # installed[j].by

\* C4: GetState takes no lock, so it can run while an UpdateState is in progress,
\* and what it returns is the state most recently published, as it was when it was
\* published: never a state that is still being built.
C4_GetStateWaitFree ==
    /\ ENABLED GetState
    /\ rd.snap # 0 =>
          /\ installed[rd.at].id = rd.snap
          /\ installed[rd.at].val = rd.val

\* the reader got its state while an update was in progress, and that update has
\* since been installed
C4_Witness ==
    /\ rd.snap # 0
    /\ rd.during
    /\ Len(installed) > rd.at
    /\ shMutex # "free"

\* C5: a DbState obtained from GetState is a snapshot: the store and meta it refers
\* to are not changed by any later UpdateState, Merge or Persist (nor is any other
\* state that was ever published).
C5_SnapshotStable ==
    /\ rd.snap # 0 => DeepVal(rd.snap) = rd.val
    /\ \A i \in 1..Len(installed) : DeepVal(installed[i].id) = installed[i].val

\* the reader still holds a state that both a Merge and a Persist have since replaced
C5_Witness ==
    /\ rd.snap # 0
    /\ \E i, j \in (rd.at + 1)..Len(installed) :
          /\ installed[i].by = "merger"
          /\ installed[j].by = "persister"
    /\ DeepVal(shState) # rd.val

\* C7: Persist writes the new index roots before the state referring to them is
\* swapped in, and writes the state root only after the swap: the published state,
\* every state ever published and every state root in the store refer only to
\* index roots that are completely written.
C7_PersistOrder ==
    /\ rootStatus[DeepVal(shState).meta.root] = "written"
    /\ \A i \in 1..Len(installed) : rootStatus[installed[i].val.meta.root] = "written"
    /\ \A k \in 1..Len(diskStates) :
          /\ rootStatus[diskStates[k].root] = "written"
          /\ \E i \in 1..Len(installed) :
                /\ installed[i].id = diskStates[k].state
                /\ installed[i].val.meta.root = diskStates[k].root

\* a Persist has written a state root that refers to a new index root
C7_Witness ==
    \E k \in 1..Len(diskStates) :
        /\ diskStates[k].root # 1
        /\ rootContent[diskStates[k].root] # {}

-----------------------------------------------------------------------------
(* Claims about the transaction manager *)

\* the two transactions started from the same snapshot, read the same key and
\* inserted it
SameKeyRace(t1, t2) ==
    /\ t1 # t2
    /\ tr[t1].st # "none" /\ tr[t2].st # "none"
    /\ tr[t1].start = tr[t2].start
    /\ \E k \in TranKeys : k \in tr[t1].reads \cap tr[t1].writes \cap tr[t2].reads \cap tr[t2].writes

\* no transaction other than the two has committed, since their start, a key that
\* either of them read or wrote
NoThird(t1, t2) ==
    \A i \in (tr[t1].start + 1)..Len(tlog) :
        \/ tlog[i].tran \in {t1, t2}
        \/ tlog[i].writes \cap (tr[t1].reads \cup tr[t1].writes
                                \cup tr[t2].reads \cup tr[t2].writes) = {}

\* C6: of two update transactions that start from the same snapshot, read the same
\* key range and insert the same unique key, the first to commit succeeds and the
\* second aborts with Conflict; exactly one of them commits and the aborted one
\* leaves the committed state as it was.
C6_ConflictAbort ==
    /\ \A t1, t2 \in Trans :
          (SameKeyRace(t1, t2) /\ tr[t1].tried /\ tr[t2].tried) =>
              /\ ~(tr[t1].st = "committed" /\ tr[t2].st = "committed")
              /\ tr[t1].st = "committed" \/ (tr[t1].st = "aborted" /\ tr[t1].err = "Conflict")
    /\ \A t1, t2 \in Trans :
          (SameKeyRace(t1, t2) /\ tr[t1].tried /\ NoThird(t1, t2)) =>
              \/ tr[t1].st = "committed"
              \/ tr[t2].st = "committed" /\ tr[t1].st = "aborted" /\ tr[t1].err = "Conflict"
    /\ tdb = UNION {tr[t].writes : t \in {u \in Trans : tr[u].st = "committed"}}
    /\ tcount = Cardinality({t \in Trans : tr[t].st = "committed"})
    /\ Len(tlog) = tcount

\* both transactions of such a race have tried to commit
C6_Witness ==
    \E t1, t2 \in Trans :
        /\ SameKeyRace(t1, t2)
        /\ tr[t1].st = "committed"
        /\ tr[t2].st = "aborted" /\ tr[t2].err = "Conflict"

-----------------------------------------------------------------------------
(* Claims about the union *)

Reverse(seq) == [i \in 1..Len(seq) |-> seq[Len(seq) + 1 - i]]

\* C8: in a merge union every Get(Next) or Get(Prev), with a Rewind after each nil,
\* returns the row at the caller's logical cursor over the sorted, duplicate-free
\* union, also right after a change of direction.
C8_MergeCursor ==
    un.strategy = "unionMerge" =>
        res = IF cur = 0 THEN Nil ELSE MergedRows[cur]

\* a Get has just reversed the direction in mid-stream and returned the neighbour
\* of the row reported before, and both sources hold rows
C8_Witness ==
    /\ un.strategy = "unionMerge"
    /\ ~scan.ok
    /\ res # Nil
    /\ un.prevDir = "Prev"
    /\ un.src1 /\ ~un.src2
    /\ Len(rows1) >= 2 /\ Len(rows2) >= 2
    /\ cur >= 2

\* C9: a forward scan of a merge union from the rewound state returns all rows of
\* both sources in ascending merge order, a row held by both only once; the
\* backward scan returns them in the reverse order.
C9_MergeScan ==
    (un.strategy = "unionMerge" /\ scan.ok /\ scan.dir # "none") =>
        LET want == IF scan.dir = "Next" THEN MergedRows ELSE Reverse(MergedRows)
        IN  /\ Len(scan.rows) <= Len(want)
            /\ scan.rows = SubSeq(want, 1, Len(scan.rows))
            /\ scan.done => scan.rows = want

\* a backward scan has ended over sources that share a row and share a key with
\* different rows
C9_Witness ==
    /\ un.strategy = "unionMerge"
    /\ scan.ok /\ scan.done /\ scan.dir = "Prev"
    /\ \E i \in 1..Len(rows1) : source2Has(rows1[i])
    /\ \E i \in 1..Len(rows1), j \in 1..Len(rows2) :
          rows1[i][1] = rows2[j][1] /\ rows1[i] # rows2[j]

\* the rows of source1 that source2 does not have, in source1 order
RECURSIVE OnlyIn1(_)
OnlyIn1(seq) ==
    IF seq = <<>> THEN <<>>
    ELSE (IF source2Has(Head(seq)) THEN <<>> ELSE <<Head(seq)>>) \o OnlyIn1(Tail(seq))

\* C10: a forward scan of a lookup union from the rewound state returns the rows of
\* source1 that have no equal row in source2, in source1 order, and then every row
\* of source2, none twice and none missing.
C10_LookupScan ==
    (un.strategy = "unionLookup" /\ scan.ok /\ scan.dir = "Next") =>
        LET want == OnlyIn1(rows1) \o rows2
        IN  /\ Len(scan.rows) <= Len(want)
            /\ scan.rows = SubSeq(want, 1, Len(scan.rows))
            /\ scan.done => scan.rows = want

\* a forward scan has ended after suppressing a row of source1 and returning rows
\* of both sources
C10_Witness ==
    /\ un.strategy = "unionLookup"
    /\ scan.ok /\ scan.done /\ scan.dir = "Next"
    /\ \E i \in 1..Len(rows1) : source2Has(rows1[i])
    /\ OnlyIn1(rows1) # <<>>
    /\ Len(rows2) >= 2

-----------------------------------------------------------------------------
(* Claims about state roots and Repair *)

\* the bytes of the database file Repair was started on (the file itself before)
storeBytes == IF rep.pc = "idle" THEN fsys.db ELSE rep.orig

\* a state root that reads back and passes the check of every table
validAt(bytes, o) ==
    /\ readState(bytes, o).ok
    /\ \A j \in 1..Noffsets : checkTable(readState(bytes, o), j)

repaired == rep.pc \in {"copy", "header", "remove", "rename1", "rename2", "done"}

\* C11: Repair tries the occurrences of magic1 in strictly decreasing offset order
\* starting from the store size, and repairs to the first one that reads back and
\* passes checkState on every table: no valid state at a higher offset is skipped
\* (and it fails only if there is no valid state at all).
C11_RepairOrder ==
    /\ \A i \in 1..Len(rep.tried) :
          /\ occursAt(rep.orig, magic1, rep.tried[i].off)
          /\ rep.tried[i].off + Len(magic1) <= Len(rep.orig)
          /\ i > 1 => rep.tried[i].off < rep.tried[i - 1].off
    /\ repaired =>
          /\ validAt(rep.orig, rep.off)
          /\ \A o \in (rep.off + 1)..Len(rep.orig) : ~validAt(rep.orig, o)
    /\ rep.pc = "failed" => \A o \in 1..Len(rep.orig) : ~validAt(rep.orig, o)

\* Repair has passed over a candidate that did not read back and one whose check
\* failed, and repaired to a third
C11_Witness ==
    /\ rep.pc = "done"
    /\ Len(rep.tried) = 3
    /\ ~rep.tried[1].state
    /\ rep.tried[2].state
    /\ rep.tried[3].state

\* C12: when Repair succeeds dbfile holds the first (state offset + stateLen) bytes of
\* the original with the size slot of the header rewritten to that length, and
\* dbfile.bak is the original byte for byte; at every step of Repair a complete copy of
\* the original is under dbfile or dbfile.bak.
C12_RepairFiles ==
    /\ rep.pc # "idle" => fsys.db = rep.orig \/ fsys.bak = rep.orig
    /\ rep.pc = "done" =>
          LET n == rep.off + stateLen
          IN  /\ fsys.bak = rep.orig
              /\ Len(fsys.db) = n
              /\ ReadSmallOffset(SubSeq(fsys.db, Len(magic) + 1, hdrLen)) = n
              /\ \A i \in 1..n : (i <= Len(magic) \/ i > hdrLen) => fsys.db[i] = rep.orig[i]

\* Repair has succeeded on a file with bytes after the state it repaired to, and an
\* older dbfile.bak was replaced
C12_Witness ==
    /\ rep.pc = "done"
    /\ Len(fsys.db) < Len(fsys.bak)
    /\ Len(rep.tried) > 1

undamaged(k) == \A i \in 1..Len(bld.damaged) : bld.damaged[i].root # k

\* C13: readState at the offset writeState returned yields the meta offsets and the
\* time (in seconds) that were written, for every array of Noffsets offsets that fit
\* a SmallOffset.
C13_StateRoundTrip ==
    \A k \in 1..Len(bld.roots) :
        LET r == bld.roots[k]
        IN  /\ r.offsets \in [1..Noffsets -> SmallOffsets]
            /\ undamaged(k) =>
                  readState(storeBytes, r.off) = [ok |-> TRUE, offsets |-> r.offsets, t |-> r.t]

\* prevState has read back a root whose offsets and time need more than one byte
C13_Witness ==
    /\ rep.state.ok
    /\ \E k \in 1..Len(bld.roots) :
          /\ bld.roots[k].off = rep.off
          /\ undamaged(k)
          /\ bld.roots[k].offsets = rep.state.offsets
          /\ bld.roots[k].offsets[1] # bld.roots[k].offsets[2]
          /\ bld.roots[k].t = rep.state.t
          /\ rep.state.t > 255

\* the checks of a state root, stated on the bytes of the file
rootMatches(bytes, o) ==
    /\ o + stateLen <= Len(bytes)
    /\ SubSeq(bytes, o + 1, o + Len(magic1)) = magic1
    /\ SubSeq(bytes, o + magic2at - cksumLen + 1, o + magic2at)
          = cksum(SubSeq(bytes, o + 1, o + magic2at - cksumLen))
    /\ SubSeq(bytes, o + magic2at + 1, o + stateLen) = magic2

\* the candidates Repair tried are reported with a state exactly if they read back
triedAsRead ==
    \A i \in 1..Len(rep.tried) :
        rep.tried[i].state = readState(rep.orig, rep.tried[i].off).ok

\* the root was damaged in the time or a meta offset and the checksum of the altered
\* bytes is the checksum stored
sameChecksum(d) ==
    /\ d.field \in 1..(Noffsets + 1)
    /\ rootMatches(storeBytes, bld.roots[d.root].off)

-----------------------------------------------------------------------------
(* Claims about Merge *)

\* iter(apply(F, D)): the entries of the fbtree the mbtree has no entry for, and the
\* entries the mbtree inserts
overlayView(fbEntries, mb) ==
    {e \in fbEntries : \A d \in mb : d.key # e.key} \cup {d \in mb : ~d.off.del}

\* C17 as stated: the fbtree Merge(fb, mb) yields iterates as the overlay of fb and mb:
\* the keys mb inserts are present and the keys that carry a delete marker are absent.
C17_MergeIsOverlay ==
    mg.pc = "done" =>
        /\ fbIter(pages, mg.result) = overlayView(mg.fbBefore, mg.mbBefore)
        /\ \A d \in mg.mbBefore :
              (\E e \in fbIter(pages, mg.result) : e.key = d.key) <=> ~d.off.del

\* C18: Merge(fb, mb) does not modify its inputs: during and after it the original
\* fbtree and the original mbtree iterate as before, and the result is a new fbtree
\* (its written leaves are none of the leaves of fb).
C18_MergeInputsKept ==
    mg.pc # "idle" =>
        /\ fbIter(pages, fbt) = mg.fbBefore
        /\ mbt = mg.mbBefore
        /\ mg.pc = "done" /\ mg.mbBefore # {} => mg.result # fbt
        /\ \A i \in 1..Len(mg.up) :
              mg.up[i] # fbt.leaves[i] => mg.up[i] \notin {fbt.leaves[j] : j \in 1..Len(fbt.leaves)}

\* Merge has returned after inserting entries of the mbtree into both leaves of a
\* non-empty fbtree
C18_Witness ==
    /\ mg.pc = "done"
    /\ mg.fbBefore # {}
    /\ \A i \in 1..Len(mg.result.leaves) : mg.result.leaves[i] # fbt.leaves[i]
    /\ fbIter(pages, mg.result) # mg.fbBefore

-----------------------------------------------------------------------------
(* Claims about Summarize *)

\* the result of every Get after the first since the Rewind or Select is nil
laterNil == \A i \in 2..Len(slog.results) : slog.results[i] = Nil

\* C19: a summarize with a Table source, no by columns and the single op count is always
\* planned as sumTbl; its first Get after each Rewind or Select, in either direction,
\* returns one row holding the row count of the table, and every further Get nil.
C19_CountTable ==
    su.strategy # "unplanned" /\ su.q.table /\ su.q.by = <<>> /\ su.q.ops = <<"count">> =>
        /\ su.strategy = "sumTbl"
        /\ slog.results # <<>> => slog.results[1] = <<Len(srows)>>
        /\ laterNil
        /\ slog.reads = <<>>

\* a count of a table with rows has been read backwards after a rewind, and the next
\* Get returned nil
C19_Witness ==
    /\ su.strategy = "sumTbl"
    /\ Len(srows) > 1
    /\ Len(slog.results) = 2
    /\ slog.dirs[1] = "Prev"
    /\ slog.results[1] # Nil
    /\ slog.results[2] = Nil

\* the values of the rows of the source under the Select in force
sourceVals == {srows[i][2] : i \in {j \in 1..Len(srows) : su.sel = 0 \/ srows[j][2] = su.sel}}

\* C20: a summarize executed by sumIdx is a single min or max with no by columns; it
\* reads exactly one row of its source per rewind, with Next for min and Prev for max
\* whatever direction the caller passes, returns one row with the value of that row
\* (the least for min, the greatest for max; nil if the source is empty), and returns
\* nil on the later Gets until rewound.
C20_IndexMinMax ==
    su.strategy = "sumIdx" =>
        /\ minmax1(su.q)
        /\ slog.results # <<>> =>
              /\ slog.reads = <<IF su.q.ops[1] = "min" THEN "Next" ELSE "Prev">>
              /\ slog.results[1] =
                    IF sourceVals = {} THEN Nil
                    ELSE IF su.q.ops[1] = "min" THEN <<Min(sourceVals)>>
                    ELSE <<Max(sourceVals)>>
        /\ slog.results = <<>> => slog.reads = <<>>
        /\ laterNil

\* a max over several rows was asked for with Next, read the source with Prev, and the
\* next Get returned nil
C20_Witness ==
    /\ su.strategy = "sumIdx"
    /\ su.q.ops[1] = "max"
    /\ Cardinality(sourceVals) > 1
    /\ Len(slog.results) = 2
    /\ slog.dirs[1] = "Next"
    /\ slog.results[1] = <<Max(sourceVals)>>
    /\ slog.results[2] = Nil

\* C21: the strategy sumMap is returned by optimize only when the mode is ReadMode.
C21_MapOnlyRead ==
    [][su.strategy = "unplanned" /\ su'.strategy = "sumMap" => su.mode = "ReadMode"]_vars

\* the rows of the source under the Select in force, and those of the group of by value b
selectedRows == sourceSelected(srows, su.sel)

groupVals(b) == {selectedRows[i][2] : i \in {j \in 1..Len(selectedRows) : selectedRows[j][1] = b}}

RECURSIVE SumSet(_)
SumSet(S) == IF S = {} THEN 0 ELSE LET x == CHOOSE y \in S : TRUE IN x + SumSet(S \ {x})

\* the by value of the group a result row of sumSeq is about
groupOf(row) == IF su.q.by = <<>> THEN 0 ELSE row[1]

\* C22: the total and the average of a group are those of the group without the rows
\* whose value cannot be added.
C22_BadRowSkipped ==
    su.strategy = "sumSeq" /\ su.q.ops[1] \in {"total", "average"} =>
        \A i \in 1..Len(slog.results) :
            LET row == slog.results[i]
                agg == row[Len(row)]
                good == {v \in groupVals(groupOf(row)) : addable(v)}
            IN  row # Nil /\ good # {} =>
                    IF su.q.ops[1] = "total" THEN agg = SumSet(good)
                    ELSE agg.num * Cardinality(good) = SumSet(good) * agg.den

\* the by values of the groups of the source, in order
groupKeys == SortedRows({<<selectedRows[i][1], 0>> : i \in 1..Len(selectedRows)})

\* the aggregate of one op over the values of a group
groupAgg(op, G) ==
    CASE op = "count" -> Cardinality(G)
      [] op = "min" -> Min(G)
      [] op = "max" -> Max(G)
      [] op = "total" -> SumSet({v \in G : addable(v)})
      [] OTHER -> [num |-> SumSet({v \in G : addable(v)}), den |-> Cardinality(G)]

\* the row of the c-th group, nil outside the list of groups
groupRow(c) ==
    IF c < 1 \/ c > Len(groupKeys) THEN Nil
    ELSE LET b == groupKeys[c][1]
         IN  (IF su.q.by = <<>> THEN <<>> ELSE <<b>>)
                 \o [k \in 1..Len(su.q.ops) |-> groupAgg(su.q.ops[k], groupVals(b))]

\* the logical cursor after the i-th Get since the rewind
RECURSIVE cursorAt(_)
cursorAt(i) ==
    IF i = 1 THEN (IF slog.dirs[1] = "Next" THEN 1 ELSE Len(groupKeys))
    ELSE cursorAt(i - 1) + (IF slog.dirs[i] = "Next" THEN 1 ELSE -1)

\* C29: under sumSeq, as long as no Get since the rewind has returned nil, each Get
\* returns the row of the group at the logical cursor (the first or last group after
\* the rewind, then one group forwards or backwards per Get), its aggregates those of
\* exactly the rows of that group, and nil when the cursor leaves the list of groups.
C29_SeqCursor ==
    su.strategy = "sumSeq" =>
        \A i \in 1..Len(slog.results) :
            (\A j \in 1..(i - 1) : slog.results[j] # Nil) =>
                slog.results[i] = groupRow(cursorAt(i))

\* two groups, one of two rows, read forwards, then back to the first and forwards
\* again to the second
C29_Witness ==
    /\ su.strategy = "sumSeq"
    /\ su.q.ops = <<"count", "max">>
    /\ Len(groupKeys) = 2
    /\ Len(selectedRows) = 3
    /\ slog.dirs = <<"Next", "Next", "Prev", "Next">>
    /\ slog.results = <<groupRow(1), groupRow(2), groupRow(1), groupRow(2)>>

\* C30: under sumSeq, a Get in the opposite direction right after a Get that returned nil
\* returns the group nearest to the end that was run off.
C30_ReverseAfterNil ==
    su.strategy = "sumSeq" =>
        \A i \in 2..Len(slog.results) :
            slog.results[i - 1] = Nil /\ slog.dirs[i] # slog.dirs[i - 1] =>
                slog.results[i] =
                    groupRow(IF slog.dirs[i] = "Prev" THEN Len(groupKeys) ELSE 1)

\* C23: Transform is idempotent: applied to the result of Transform it returns that
\* result.
C23_TransformIdempotent == Len(qt.out) = 2 => qt.out[2] = qt.out[1]

\* the rows of the index that have the values the Select in force asks for
tiRestricted ==
    SelectSeq(tiIndex, LAMBDA r :
        \A j \in 1..Len(ti.sel.cols) : rawVal(r, ti.sel.cols[j]) = ti.sel.vals[j])

\* C24: the first Get of a TempIndex after a Select returns the first row of the
\* restricted result for Next and its last row for Prev, nil if it is empty;
\* after Select(nil, nil) the result is the unrestricted one.
C24_SelectRewinds ==
    tiLog.valid /\ tiLog.results # <<>> =>
        tiLog.results[1] =
            IF tiRestricted = <<>> THEN Nil
            ELSE IF tiLog.dirs[1] = "Next" THEN tiRestricted[1]
            ELSE tiRestricted[Len(tiRestricted)]

\* C25: with no Select in force, Gets in one direction from the rewound state return
\* the rows in the order of the index, ascending for Next and descending from the last
\* row for Prev, and then nil; under a Select that conflicts with the fixed value of
\* the source every Get returns nil.
C25_InOrder ==
    /\ tiLog.valid /\ ti.sel = nilArgs
          /\ (\A i \in 1..Len(tiLog.dirs) : tiLog.dirs[i] = tiLog.dirs[1]) =>
          \A i \in 1..Len(tiLog.results) :
              tiLog.results[i] =
                  IF i > Len(tiIndex) THEN Nil
                  ELSE IF tiLog.dirs[1] = "Next" THEN tiIndex[i]
                  ELSE tiIndex[Len(tiIndex) + 1 - i]
    /\ selectFixed(ti.sel.cols, ti.sel.vals).conflict =>
          \A i \in 1..Len(tiLog.results) : tiLog.results[i] = Nil

\* two rows read backwards from the rewound state: the last, the first, then nil
C25_Witness ==
    /\ tiLog.valid /\ ti.sel = nilArgs
    /\ Len(tiIndex) = 2
    /\ tiLog.dirs = <<"Prev", "Prev", "Prev">>
    /\ tiLog.results = <<tiIndex[2], tiIndex[1], Nil>>

\* the rows of the source that have the values a Lookup asks for in every order column
lookMatches ==
    {r \in {tiRows[i] : i \in 1..Len(tiRows)} :
        \A i \in 1..Len(ti.order) :
            LET j == colIndex(tiLog.look.cols, ti.order[i])
            IN  j # 0 /\ rawVal(r, ti.order[i]) = tiLog.look.vals[j]}

\* C26: Lookup panics exactly when cols lacks an order column; otherwise it returns
\* a row of the source that has the values asked for in every order column if there
\* is one, and nil if there is none.
C26_Lookup ==
    tiLog.look.done =>
        /\ tiLog.look.panic <=>
              \E i \in 1..Len(ti.order) : colIndex(tiLog.look.cols, ti.order[i]) = 0
        /\ ~tiLog.look.panic =>
              IF lookMatches = {} THEN tiLog.look.row = Nil
              ELSE tiLog.look.row \in lookMatches

\* a Lookup on both order columns, after the iterator had moved, found one of three
\* rows
C26_Witness ==
    /\ tiLog.look.done /\ ~tiLog.valid
    /\ Len(ti.order) = 2 /\ Len(tiRows) = 3
    /\ tiLog.look.row # Nil
    /\ tiLog.look.row # tiRows[1]

\* the first word multi stores for a record
storedWord(dbrec) == ReadSmallOffset(SubSeq(putRec(dbrec), 1, SmallOffsetLen))

\* C27: a row read back from the heap has as many records as the row stored, the
\* same Off for each database record, and Off = 0 and the same bytes for each
\* derived record; the word stored for a record is at least multiMask exactly when
\* the record is derived.
C27_MultiRoundTrip ==
    /\ mu.got.i # 0 =>
          LET orig == msource[mu.got.i]
              got == mu.got.row
          IN  /\ Len(got) = Len(orig)
              /\ \A k \in 1..Len(orig) :
                    /\ got[k].Off = orig[k].Off
                    /\ orig[k].Off = 0 => got[k].Record = orig[k].Record
    /\ \A i \in 1..Len(mu.offs) : \A k \in 1..NRecs :
          storedWord(msource[i][k]) >= multiMask <=> msource[i][k].Off = 0

\* the second row, stored past a chunk boundary, is read back: a database record at
\* the highest offset below multiMask and a derived record of two bytes
C27_Witness ==
    /\ mu.got.i = 2
    /\ mu.offs[2] % heapChunkSize = 0
    /\ mu.got.row[1].Off = multiMask - 1
    /\ mu.got.row[2].Off = 0
    /\ Len(mu.got.row[2].Record) = 2

\* the size multi computes for a row: the small offsets of its records and the bytes
\* of its derived records
sizeOfRow(row) ==
    NRecs * SmallOffsetLen
        + derivedLen(SelectSeq(row, LAMBDA r : r.Off = 0))

\* C28: the build panics at the first row whose size exceeds derivedMaxSize and only
\* there; every row before it is stored, and all rows if there is none; no Alloc
\* fails its assertion, the sizes allocated being at most heapChunkSize.
C28_DerivedLimit ==
    /\ mu.pc # "assert"
    /\ \A i \in 1..(mu.next - 1) : sizeOfRow(msource[i]) <= derivedMaxSize
    /\ \A i \in 1..(mu.next - 1) : sizeOfRow(msource[i]) <= heapChunkSize
    /\ Len(mu.offs) = mu.next - 1
    /\ mu.pc = "panic" => sizeOfRow(msource[mu.next]) > derivedMaxSize
    /\ mu.pc = "built" =>
          /\ mu.next = Len(msource) + 1
          /\ \A i \in 1..Len(msource) : sizeOfRow(msource[i]) <= derivedMaxSize

\* the first row was stored and the build panicked at the second
C28_Witness ==
    /\ mu.pc = "panic"
    /\ mu.next = 2
    /\ Len(mu.offs) = 1


-----------------------------------------------------------------------------
(* Claims about the lookup union in both directions *)

\* the rows of a lookup union in the order a forward scan reports them
LookupRows == OnlyIn1(rows1) \o rows2

\* C31: a lookup union is bidirectional: every Get(Next) or Get(Prev), with a
\* Rewind after each nil, returns the row at the caller's logical cursor over the
\* rows of the forward scan, so a backward scan is the reverse of the forward scan
\* and a change of direction in mid-stream, also across the boundary between the
\* source1 phase and the source2 phase, returns the neighbour of the row reported
\* last.
C31_LookupCursor ==
    un.strategy = "unionLookup" =>
        res = IF cur = 0 THEN Nil ELSE LookupRows[cur]


-----------------------------------------------------------------------------
(* Claims about the chunk table of the store *)

\* C32: under any interleaving of concurrent Allocs, also of exactly chunksize
\* bytes, entry i of chunks is storage chunk i, each chunk is fetched from the
\* implementation at most once, and every offset Alloc returned lies in a chunk
\* that was mapped when Alloc returned.
C32_ChunksDense ==
    /\ \A i \in 1..Len(chunks) : chunks[i] = i - 1
    /\ \A i, j \in 1..Len(fetched) : fetched[i] = fetched[j] => i = j
    /\ \A i \in 1..Len(allocated) : allocated[i].mapped


\* an Alloc is in progress in thread p
pending(p) == al[p].pc \notin {"idle", "fatal"}

\* an Alloc goes round its loop again only after a compare-and-swap that found the
\* size changed by another thread
retryOnlyOnLoss ==
    [][\A p \in Procs :
          (al[p].pc = "cas" /\ al'[p].pc = "load") => size # al[p].oldsize]_vars

-----------------------------------------------------------------------------
(* Claims about the termination of Repair *)

\* C34: each iteration of Repair's loop has a candidate offset strictly smaller
\* than the one before, so the loop ends, with a chosen state or with the error
\* 'repair failed - no valid states found' when no candidate is valid; up to the
\* choice, and in the error case for good, the database file and an existing .bak
\* are not modified.
C34_RepairTerminates ==
    /\ [][rep.pc = "scan" => rep'.off < rep.off]_vars
    /\ [][rep'.pc = "scan" => loopIteration(fsys'.db, rep') # rep']_vars
    /\ [][rep.pc = "scan" => fsys' = fsys]_vars
    /\ [][rep'.pc = "failed" =>
             /\ fsys' = fsys /\ fsys.db = rep.orig /\ fsys.tmp = NoFile
             /\ \A i \in 1..Len(rep.tried) : ~validAt(rep.orig, rep.tried[i].off)]_vars
    /\ (rep.pc = "scan") ~> (rep.pc \in {"copy", "failed"})

\* Repair has failed after trying several candidates, one of which read back as
\* a state, with a .bak present
C34_Witness ==
    /\ rep.pc = "failed"
    /\ Len(rep.tried) >= 2
    /\ \E i \in 1..Len(rep.tried) : rep.tried[i].state
    /\ fsys.bak # NoFile


-----------------------------------------------------------------------------
(* Claims about Compact *)

\* the tables of the source state
sourceTables == {cmain.schemas[i] : i \in 1..Len(cmain.schemas)}

\* all workers have left their loop
workersDone == \A w \in 1..cmain.nworkers : cwork[w].pc = "done"

\* C35: Compact hands every table of the source state to the worker pool exactly
\* once and each job is processed by exactly one worker; the destination state
\* root is written and the new file renamed over the original only after all
\* workers have finished, having processed every table; and after the job channel
\* is closed every worker exits, unless a failed table has ended the process.
C35_CompactPool ==
    /\ [](/\ \A i, j \in 1..Len(clog.sent) : clog.sent[i] = clog.sent[j] => i = j
          /\ \A i, j \in 1..Len(clog.processed) :
                clog.processed[i].table = clog.processed[j].table => i = j
          /\ \A i \in 1..Len(clog.processed) :
                \E j \in 1..Len(clog.sent) : clog.sent[j] = clog.processed[i].table
          /\ cmain.closed => {clog.sent[i] : i \in 1..Len(clog.sent)} = sourceTables
          /\ (cdst.root # <<>> \/ cdst.renamed) =>
                /\ workersDone
                /\ {clog.processed[i].table : i \in 1..Len(clog.processed)} = sourceTables
                /\ cdst.root = <<sourceTables>>)
    /\ cmain.closed ~> (workersDone \/ cmain.pc = "fatal")

\* the new file has been renamed after two workers shared the jobs
C35_Witness ==
    /\ cdst.renamed
    /\ Len(clog.processed) >= 2
    /\ \E i, j \in 1..Len(clog.processed) :
          clog.processed[i].worker # clog.processed[j].worker


-----------------------------------------------------------------------------
(* Claims about DbmsLocal *)

\* the results of the Timestamp calls, in call order
RECURSIVE timestamps(_)
timestamps(log) ==
    IF log = <<>> THEN <<>>
    ELSE (IF Head(log).op = "Timestamp" THEN <<Head(log).ret>> ELSE <<>>)
            \o timestamps(Tail(log))

\* C37: successive calls of DbmsLocal.Timestamp return distinct, strictly
\* increasing timestamps, also when the clock returns the same value on several
\* consecutive calls.
C37_TimestampsIncrease ==
    LET ts == timestamps(dlog)
    IN  \A i, j \in 1..Len(ts) : i < j => ts[i] < ts[j]

\* the libraries in use after the first k calls, as the results say
RECURSIVE inUse(_)
inUse(k) ==
    IF k = 0 THEN {}
    ELSE LET c == dlog[k]
         IN  IF c.op = "Use" /\ c.ret THEN inUse(k - 1) \cup {c.lib}
             ELSE IF c.op = "Unuse" /\ c.ret THEN inUse(k - 1) \ {c.lib}
             ELSE inUse(k - 1)

\* C38: DbmsLocal keeps its library list across calls: Use(lib) returns true
\* exactly when lib is not in use and puts it in use, so a second Use(lib) returns
\* false; Unuse(lib) returns true exactly when lib is in use and is not stdlib, and
\* takes it out of use.
C38_LibrariesKept ==
    \A k \in 1..Len(dlog) :
        LET c == dlog[k]
        IN  /\ c.op = "Use" => (c.ret <=> c.lib \notin inUse(k - 1))
            /\ c.op = "Unuse" => (c.ret <=> (c.lib # "stdlib" /\ c.lib \in inUse(k - 1)))


-----------------------------------------------------------------------------
(* Claims about seqIter *)

\* the k-th result of a sequence from its beginning: from, from+by, ... while below
\* to, then nil
seqValue(seq, k) ==
    LET v == seq.from + (k - 1) * seq.by
    IN  IF v < seq.to THEN <<v>> ELSE Nil

\* C39: seqIter.Dup returns an independent iterator that yields the same sequence
\* as the original does from its beginning (from, from+by, ... while below to),
\* however far the original has advanced, and advancing the duplicate does not
\* move the original.
C39_DupFromBeginning ==
    /\ \A k \in 1..Len(sqlog.orig) : sqlog.orig[k] = seqValue(sq, k)
    /\ \A k \in 1..Len(sqlog.dup) : sqlog.dup[k] = seqValue(sq, k)


-----------------------------------------------------------------------------
(* Claims about the folder *)

\* C40: Folder.In preserves meaning: it returns the constant true only if e is a
\* constant equal to a constant element of exprs, the constant false only if e and
\* all elements are constants and none equals e, and in every other case the
\* unfolded In node built from the same subject e and the same element list.
C40_InPreserved ==
    fout # noExpr =>
        LET e == fin.e
            es == fin.exprs
        IN  /\ fout = Constant(True) =>
                  /\ isConstant(e)
                  /\ \E i \in 1..Len(es) : isConstant(es[i]) /\ Equal(e.val, es[i].val)
            /\ fout = Constant(False) =>
                  /\ isConstant(e)
                  /\ \A i \in 1..Len(es) : isConstant(es[i]) /\ ~Equal(e.val, es[i].val)
            /\ fout \notin {Constant(True), Constant(False)} => fout = FactoryIn(e, es)


-----------------------------------------------------------------------------
(* Claims about the scanner *)

\* C36: a scanner that has been shared is concurrent and goes on working; on a
\* concurrent scanner a method holds the lock while it runs and no method waits
\* for the lock while its own thread holds it, so every method returns; a scanner
\* that is not concurrent takes no lock.
C36_SharedScanner ==
    /\ scn.shared => (scn.concurrent /\ ~scn.fatal)
    /\ \A t \in ScanThreads :
          /\ (scn.concurrent /\ scth[t].pc = "lock") => scn.lock # t
          /\ (scn.concurrent /\ scth[t].pc \in {"body", "ret"}) => scn.lock = t
    /\ ~scn.concurrent => scn.lock = 0

====
